---- MODULE Spec2Model ----
(***************************************************************************)
(* The orderbook watcher of joinmarket-v2: the OrderbookAggregator          *)
(* (orderbook_watcher/aggregator.py) as a state machine.  Every coroutine   *)
(* is cut at its suspension points (await); what runs between two           *)
(* suspension points is one action.                                         *)
(***************************************************************************)
EXTENDS Integers, Sequences, FiniteSets, TLC

(***************************************************************************)
(* Bounds of the model.                                                     *)
(***************************************************************************)
\* update_orderbook / get_live_orderbook calls made in one behaviour
MaxCalls == 2
\* start_continuous_listening calls, and stop_listening calls, made in one
\* behaviour
MaxListens == 1
\* the same when the calls may overlap and a start may follow a start
MaxOverlap == 2
\* order books put on the valuation queue
MaxQueued == 2
\* bonds given to one validate_bonds call
MaxValidate == 2
\* messages a directory node sends while get_peerlist waits
MaxMessages == 3
\* _encode_scriptnum is called with every n of -MaxScriptNum..MaxScriptNum
MaxScriptNum == 40000

(***************************************************************************)
(* Program constants.                                                       *)
(***************************************************************************)
\* asyncio.Semaphore(5)
MempoolSemaphore == 5
\* "type": 687, the public broadcast message
PubMsg == 687

\* Python's None in a nullable integer field (every real value is >= 0).
None == 0 - 1

(***************************************************************************)
(* The environment: directory nodes, the bonds and offers they advertise,   *)
(* and the transactions mempool.space knows.                                *)
(***************************************************************************)
Nodes == {1, 2}
NodeOrder == <<1, 2>>
Counterparties == {"A", "B"}
TxIds == {1, 2}
\* amount a bond announcement claims, and its locktime
ClaimedAmount == 3
LockTime == 9
\* block_time of a confirmed transaction
BlockTime == 1
\* the clock when the aggregator is constructed
StartTime == 2
\* block_height of a confirmed transaction
BlockHeight == 10

\* Transaction.vout of each transaction: the values of its outputs.
TxVout(txid) == IF txid = 1 THEN <<5, 7>> ELSE <<6>>

\* A FidelityBond as parsed off the wire: no value, no confirmation time.
WireBond(cp, txid, vout) ==
    [counterparty |-> cp, utxo_txid |-> txid, utxo_vout |-> vout,
     amount |-> ClaimedAmount, locktime |-> LockTime, bond_value |-> None,
     utxo_confirmation_timestamp |-> None, directory_node |-> None]

\* An Offer as parsed off the wire.  fidelity_bond_data is <<>> (no bond) or
\* <<txid, vout>>, the UTXO the offer's bond proof names.
WireOffer(cp, fbd) ==
    [counterparty |-> cp, fidelity_bond_data |-> fbd,
     fidelity_bond_value |-> None, directory_node |-> None]

\* (B, 2, 1) names an output transaction 2 does not have.
BondUniverse ==
    {WireBond("A", 1, 0), WireBond("A", 1, 1), WireBond("B", 2, 1)}
OfferUniverse ==
    {WireOffer("A", <<1, 1>>), WireOffer("B", <<>>)}

\* What one directory node advertises: at most one offer and one bond.
Feeds ==
    {[offers |-> os, bonds |-> bs] :
        os \in {<<>>} \cup {<<o>> : o \in OfferUniverse},
        bs \in {<<>>} \cup {<<b>> : b \in BondUniverse}}

(***************************************************************************)
(* jmcore.models.OrderBook (not among the sources; after the data model of  *)
(* the specification).                                                      *)
(***************************************************************************)
\* OrderBook(timestamp=ts).  pending counts the bond lookups of the book's
\* valuation that had not finished when the book was published; it is
\* bookkeeping of the model, not a field of the program.
OrderBook(ts) ==
    [offers |-> <<>>, fidelity_bonds |-> <<>>, directory_nodes |-> <<>>,
     timestamp |-> ts, pending |-> 0]

NoBook == [timestamp |-> None]

SetNode(xs, node_id) ==
    [i \in 1..Len(xs) |-> [xs[i] EXCEPT !.directory_node = node_id]]

AddNode(nodes, node_id) ==
    IF \E i \in 1..Len(nodes) : nodes[i] = node_id THEN nodes
    ELSE Append(nodes, node_id)

\* OrderBook.add_offers: tag, extend, note the contributing node.
add_offers(ob, offers, node_id) ==
    [ob EXCEPT !.offers = ob.offers \o SetNode(offers, node_id),
               !.directory_nodes = AddNode(ob.directory_nodes, node_id)]

\* OrderBook.add_fidelity_bonds: tag, extend, note the contributing node.
\* Deduplication is a separate step of the merge ("after deduplication").
add_fidelity_bonds(ob, bonds, node_id) ==
    [ob EXCEPT !.fidelity_bonds = ob.fidelity_bonds \o SetNode(bonds, node_id),
               !.directory_nodes = AddNode(ob.directory_nodes, node_id)]

\* cache_key = f"{bond.utxo_txid}:{bond.utxo_vout}"
cache_key(bond) == <<bond.utxo_txid, bond.utxo_vout>>

(***************************************************************************)
(* jmcore.bond_calc.calculate_timelocked_fidelity_bond_value (not among the *)
(* sources; a curve with the properties section 4.3 asks for).              *)
(***************************************************************************)
calculate_timelocked_fidelity_bond_value(amount, confirm_time, unlock_time, now) ==
    IF now <= confirm_time \/ unlock_time <= confirm_time THEN 0
    ELSE amount * (unlock_time - confirm_time)

(***************************************************************************)
(* MempoolAPI.get_transaction: what a lookup of txid can give.  A lookup    *)
(* raises MempoolAPIError, or returns the transaction, unconfirmed or       *)
(* confirmed, with or without a block_time.                                 *)
(***************************************************************************)
NoTx == [raised |-> FALSE, api_error |-> FALSE, confirmed |-> FALSE, block_height |-> None,
         block_time |-> None, vout |-> <<>>, asked |-> FALSE]

Answers == {"error", "unconfirmed", "confirmed", "confirmed_no_time"}

\* "error": the request fails (MempoolAPIError).  "malformed": the answer is
\* not a Transaction (the model's validation raises, not a MempoolAPIError).
get_transaction(txid, answer) ==
    CASE answer = "error" ->
           [NoTx EXCEPT !.raised = TRUE, !.api_error = TRUE, !.asked = TRUE]
      [] answer = "malformed" ->
           [NoTx EXCEPT !.raised = TRUE, !.asked = TRUE]
      [] answer = "unconfirmed" ->
           [NoTx EXCEPT !.vout = TxVout(txid), !.asked = TRUE]
      [] answer = "confirmed_no_time" ->
           [NoTx EXCEPT !.confirmed = TRUE, !.block_height = BlockHeight,
                        !.vout = TxVout(txid), !.asked = TRUE]
      [] answer = "confirmed_no_height" ->
           [NoTx EXCEPT !.confirmed = TRUE, !.block_time = BlockTime,
                        !.vout = TxVout(txid), !.asked = TRUE]
      [] OTHER ->
           [NoTx EXCEPT !.confirmed = TRUE, !.block_height = BlockHeight,
                        !.block_time = BlockTime, !.vout = TxVout(txid), !.asked = TRUE]

(***************************************************************************)
(* DirectoryClient (not among the sources; after sections 4.2, 5 and 6 of   *)
(* the specification) and the tasks start_continuous_listening creates.     *)
(***************************************************************************)
\* DirectoryClient(host, port, network): not connected, nothing cached.
\* sent is the type of the message sent on its connection (None: nothing
\* sent).  failed (the step of start_continuous_listening that raised for
\* it) and close_attempted are bookkeeping of the model, not fields of the
\* program.
DirectoryClient(node_id) ==
    [node_id |-> node_id, connection |-> "none", running |-> FALSE,
     sent |-> None, failed |-> "none", close_attempted |-> FALSE,
     offers |-> <<>>, bonds |-> <<>>]

\* connect(), get_peerlist() and connection.send() return or raise.
CallOutcomes == {"ok", "error"}

\* close() releases the transport; the release may fail, and the failure is
\* then the caller's to handle.
CloseOutcomes == {"ok", "error"}

\* asyncio.create_task(client.listen_continuously()) for the client obj.
ListenerTask(obj) == [obj |-> obj, st |-> "running", cancel |-> FALSE]

\* asyncio.create_task(self._background_bond_calculator())
BondTask == [st |-> "running", cancel |-> FALSE]

(***************************************************************************)
(* OrderbookAggregator.fetch_from_directory                                 *)
(***************************************************************************)
FetchOutcomes == {"ok", "connect_error", "fetch_error", "timeout", "close_error"}

\* The result of the one-shot fetch from node_id.  connect() or
\* fetch_orderbooks() raising is caught and gives the empty result; the
\* finally clause closes the client on every path, and a close() that
\* raises there ends the fetch with that exception, which the gather of
\* line 85 hands back as the result.
fetch_from_directory(node_id, outcome, feed) ==
    CASE outcome = "ok" ->
           [raised |-> FALSE, offers |-> SetNode(feed.offers, node_id),
            bonds |-> SetNode(feed.bonds, node_id), node_id |-> node_id]
      [] outcome = "close_error" ->
           [raised |-> TRUE, offers |-> <<>>, bonds |-> <<>>, node_id |-> node_id]
      [] OTHER ->
           [raised |-> FALSE, offers |-> <<>>, bonds |-> <<>>, node_id |-> node_id]

(***************************************************************************)
(* OrderbookAggregator.update_orderbook, lines 89-97: the merge loop.       *)
(***************************************************************************)
\* A plausible slip: "and" for "or" in the test of line 95.
merge_result_and(ob, result) ==
    IF result.raised THEN ob
    ELSE IF result.offers # <<>> /\ result.bonds # <<>>
         THEN add_fidelity_bonds(add_offers(ob, result.offers, result.node_id),
                                 result.bonds, result.node_id)
         ELSE ob

merge_result(ob, result) ==
    IF result.raised THEN ob
    ELSE IF result.offers # <<>> \/ result.bonds # <<>>
         THEN add_fidelity_bonds(add_offers(ob, result.offers, result.node_id),
                                 result.bonds, result.node_id)
         ELSE ob

RECURSIVE merge_results(_, _, _)
merge_results(ob, results, i) ==
    IF i > Len(results) THEN ob
    ELSE merge_results(merge_result(ob, results[i]), results, i + 1)

(***************************************************************************)
(* OrderbookAggregator._calculate_bond_value_single, lines 255-292: what    *)
(* the lookup's answer tx does to the bond.                                 *)
(***************************************************************************)
\* A plausible slip: the confirmed test of line 257 left out.
calculate_bond_value_single_unchecked(bond, tx, current_time) ==
    IF tx.raised THEN bond
    ELSE IF bond.utxo_vout >= Len(tx.vout) THEN bond
    ELSE LET amount == tx.vout[bond.utxo_vout + 1]
             confirmation_time ==
                 IF tx.block_time = None \/ tx.block_time = 0
                 THEN current_time ELSE tx.block_time
         IN  [bond EXCEPT
                !.bond_value = calculate_timelocked_fidelity_bond_value(
                                   amount, confirmation_time, bond.locktime, current_time),
                !.amount = amount,
                !.utxo_confirmation_timestamp = confirmation_time]

calculate_bond_value_single(bond, tx, current_time) ==
    IF tx.raised THEN bond
    ELSE IF ~tx.confirmed THEN bond
    ELSE IF bond.utxo_vout >= Len(tx.vout) THEN bond
    ELSE LET amount == tx.vout[bond.utxo_vout + 1]
             confirmation_time ==
                 IF tx.block_time = None \/ tx.block_time = 0
                 THEN current_time ELSE tx.block_time
         IN  [bond EXCEPT
                !.bond_value = calculate_timelocked_fidelity_bond_value(
                                   amount, confirmation_time, bond.locktime, current_time),
                !.amount = amount,
                !.utxo_confirmation_timestamp = confirmation_time]

(***************************************************************************)
(* OrderbookAggregator._calculate_bond_values: one task per bond of the     *)
(* book.  A task is "waiting" for the semaphore, "inflight" (it holds the   *)
(* semaphore and awaits get_transaction) or "done".  pre is the bond as the *)
(* task found it, tx the answer its lookup got (NoTx: no lookup made).      *)
(***************************************************************************)
Task(st, bond) == [st |-> st, pre |-> bond, tx |-> NoTx]

\* A plausible slip: the lookup is made outside "async with".
start_tasks_unlimited(bonds, i, s, acc) ==
    [tasks |-> [k \in 1..Len(bonds) |->
                  Task(IF bonds[k].bond_value # None THEN "done" ELSE "inflight",
                       bonds[k])],
     sem |-> s - Cardinality({k \in 1..Len(bonds) : bonds[k].bond_value = None})]

\* The tasks start in the order of the bonds; each runs to its first
\* suspension point: a bond that has a value returns at once (line 251), the
\* others take the semaphore if it is free and wait for it otherwise.
RECURSIVE start_tasks(_, _, _, _)
start_tasks(bonds, i, s, acc) ==
    IF i > Len(bonds) THEN [tasks |-> acc, sem |-> s]
    ELSE IF bonds[i].bond_value # None
         THEN start_tasks(bonds, i + 1, s, Append(acc, Task("done", bonds[i])))
         ELSE IF s > 0
              THEN start_tasks(bonds, i + 1, s - 1, Append(acc, Task("inflight", bonds[i])))
              ELSE start_tasks(bonds, i + 1, s, Append(acc, Task("waiting", bonds[i])))

\* A plausible slip: the valuation is started and not awaited.
gather_not_awaited(ts) == TRUE

\* await asyncio.gather(*tasks, return_exceptions=True) returns.
gather_done(ts) == \A i \in 1..Len(ts) : ts[i].st = "done"

(***************************************************************************)
(* The state.                                                               *)
(***************************************************************************)
\* Concurrent callers of update_orderbook, get_live_orderbook, get_orderbook.
Updaters == {"u1", "u2"}
LiveCallers == {"g1"}
Callers == Updaters \cup LiveCallers
Readers == {"r1"}

VARIABLES
    node_feed,          \* what each directory node advertises (environment)
    mempool,            \* the answers mempool.space may give (environment)
    clock,              \* datetime.utcnow()
    current_orderbook,  \* self.current_orderbook
    lock,               \* self._lock: "free" or its holder
    sem,                \* self._mempool_semaphore: permits left
    pc,                 \* per call of update_orderbook / get_live_orderbook
    book,               \* its local order book (new_orderbook, orderbook)
    tasks,              \* the bond tasks of its valuation batch
    results,            \* update_orderbook: the gathered fetch results
    ret,                \* the order book its last call returned
    rpc,                \* per get_orderbook call
    rret,               \* what its last call returned
    discipline,         \* how start and stop calls are made (environment)
    client,             \* the DirectoryClient objects made so far
    clients,            \* self.clients: (node_id, client) in insertion order
    ltask,              \* the listener tasks created so far
    listener_tasks,     \* self.listener_tasks: tasks of ltask
    btask,              \* the background valuation tasks created so far
    bond_task,          \* self._bond_calculation_task: a task of btask, or 0
    bond_queue,         \* self._bond_queue
    bond_cache,         \* self._bond_cache
    calc,               \* get_live_orderbook: its calculate_bonds argument
    processed,          \* the order books the background task has worked off
    start,              \* the start_continuous_listening call
    stop,               \* the stop_listening call
    vbonds,             \* validate_bonds: its argument
    vtask,              \* validate_bonds: the validate_bond task of each bond
    vret,               \* validate_bonds: what it returned
    stream,             \* the messages a directory node sends to a client
    peer,               \* DirectoryClient.get_peerlist: the call
    sarg,               \* the arguments of a call of a btc_script function
    sout                \* what the call returned or raised

envVars == <<node_feed, mempool, discipline>>
validatorVars == <<vbonds, vtask, vret>>
peerVars == <<stream, peer>>
scriptVars == <<sarg, sout>>
libVars == <<validatorVars, peerVars, scriptVars>>

\* No validate_bonds call has been made.
NoValidation ==
    /\ vbonds = <<>>
    /\ vtask = <<>>
    /\ vret = [pc |-> "idle", returned |-> FALSE, bonds |-> <<>>]

\* No get_peerlist call has been made; read counts the messages received.
NoPeerlist == [pc |-> "idle", read |-> 0, discarded |-> <<>>, peers |-> <<>>,
               raised |-> "none"]

\* No btc_script function has been called.  An output is the bytes
\* returned, or the ValueError raised with the parts of its message.
NoArgs == [fn |-> "none"]
NoOutput == [done |-> FALSE, raised |-> FALSE, message |-> <<>>, bytes |-> <<>>]

\* The components beside the aggregator, at rest.
InitLib ==
    /\ NoValidation
    /\ stream = <<>>
    /\ peer = NoPeerlist
    /\ sarg = NoArgs
    /\ sout = NoOutput
callVars == <<pc, book, tasks, results, ret>>
snapVars == <<current_orderbook, lock, rpc, rret>>
liveVars == <<bond_cache, calc, processed>>
listenVars == <<client, clients, ltask, listener_tasks, btask, bond_task, bond_queue,
                start, stop>>
vars == <<envVars, libVars, clock, sem, callVars, snapVars, liveVars, listenVars>>

(***************************************************************************)
(* update_orderbook                                                         *)
(***************************************************************************)
\* Lines 80-99, from the return of the gather of the fetches to the first
\* suspension of the valuation: each fetch has ended one way or another, the
\* results are merged into a new order book stamped with the current time,
\* and the valuation tasks of its bonds are started.
UpdateGather(u) ==
    /\ pc[u] = "idle"
    /\ clock < StartTime + MaxCalls
    /\ \E outcome \in [Nodes -> FetchOutcomes] :
         LET rs == [i \in 1..Len(NodeOrder) |->
                      fetch_from_directory(NodeOrder[i], outcome[NodeOrder[i]],
                                           node_feed[NodeOrder[i]])]
             new_orderbook == merge_results(OrderBook(clock), rs, 1)
             batch == start_tasks(new_orderbook.fidelity_bonds, 1, sem, <<>>)
         IN  /\ results' = [results EXCEPT ![u] =
                              [i \in 1..Len(rs) |-> [ok |-> outcome[NodeOrder[i]] = "ok",
                                                     node_id |-> NodeOrder[i]]]]
             /\ book' = [book EXCEPT ![u] = new_orderbook]
             /\ tasks' = [tasks EXCEPT ![u] = batch.tasks]
             /\ sem' = batch.sem
    /\ clock' = clock + 1
    /\ pc' = [pc EXCEPT ![u] = "valuing"]
    /\ ret' = [ret EXCEPT ![u] = NoBook]
    /\ UNCHANGED <<envVars, libVars, snapVars, liveVars, listenVars>>

\* Line 101: the valuation has returned; async with self._lock.
UpdateLock(u) ==
    /\ u \in Updaters
    /\ pc[u] = "valuing"
    /\ gather_done(tasks[u])
    /\ lock = "free"
    /\ lock' = u
    /\ pc' = [pc EXCEPT ![u] = "locked"]
    /\ UNCHANGED <<book, tasks, results, ret, current_orderbook, rpc, rret,
                   clock, sem, envVars, libVars, liveVars, listenVars>>

\* Lines 102-110: the swap, the release of the lock, the return.
UpdateInstall(u) ==
    /\ u \in Updaters
    /\ pc[u] = "locked"
    /\ current_orderbook' =
         [book[u] EXCEPT !.pending =
             Cardinality({i \in 1..Len(tasks[u]) : tasks[u][i].st # "done"})]
    /\ lock' = "free"
    /\ ret' = [ret EXCEPT ![u] = book[u]]
    /\ pc' = [pc EXCEPT ![u] = "idle"]
    /\ UNCHANGED <<book, tasks, results, rpc, rret, clock, sem, envVars, libVars,
                   liveVars, listenVars>>

(***************************************************************************)
(* get_orderbook                                                            *)
(***************************************************************************)
\* Line 113: async with self._lock.
ReaderLock(r) ==
    /\ rpc[r] = "idle"
    /\ lock = "free"
    /\ lock' = r
    /\ rpc' = [rpc EXCEPT ![r] = "locked"]
    /\ UNCHANGED <<current_orderbook, rret, clock, sem, envVars, libVars, callVars,
                   liveVars, listenVars>>

\* Line 114: return self.current_orderbook, releasing the lock.
ReaderReturn(r) ==
    /\ rpc[r] = "locked"
    /\ rret' = [rret EXCEPT ![r] = current_orderbook]
    /\ lock' = "free"
    /\ rpc' = [rpc EXCEPT ![r] = "idle"]
    /\ UNCHANGED <<current_orderbook, clock, sem, envVars, libVars, callVars, liveVars,
                   listenVars>>

(***************************************************************************)
(* _calculate_bond_value_single: the steps of one bond task.                *)
(***************************************************************************)
\* Line 254: a waiting task gets the semaphore.  Waiters are served in the
\* order in which they came, which within one batch is the bonds' order.
TaskAcquire(c, i) ==
    /\ tasks[c][i].st = "waiting"
    /\ \A j \in 1..(i - 1) : tasks[c][j].st # "waiting"
    /\ sem > 0
    /\ sem' = sem - 1
    /\ tasks' = [tasks EXCEPT ![c][i].st = "inflight"]
    /\ UNCHANGED <<pc, book, results, ret, clock, envVars, libVars, snapVars, liveVars,
                   listenVars>>

\* Lines 256-292: get_transaction answers (or raises); the bond is valued or
\* left as it is; the semaphore is released.
TaskComplete(c, i) ==
    /\ tasks[c][i].st = "inflight"
    /\ \E answer \in mempool :
         LET tx == get_transaction(book[c].fidelity_bonds[i].utxo_txid, answer)
         IN
         /\ book' = [book EXCEPT ![c].fidelity_bonds[i] =
                        calculate_bond_value_single(@, tx, book[c].timestamp)]
         /\ tasks' = [tasks EXCEPT ![c][i].st = "done", ![c][i].tx = tx]
    /\ sem' = sem + 1
    /\ UNCHANGED <<pc, results, ret, clock, envVars, libVars, snapVars, liveVars,
                   listenVars>>

(***************************************************************************)
(* The aggregator serving update_orderbook and get_orderbook calls.         *)
(***************************************************************************)
\* No start_continuous_listening call is running; calls counts the calls made.
NoStart == [pc |-> "idle", idx |-> 0, obj |-> 0, calls |-> 0]

\* No stop_listening call is running; bond is the background task the call
\* awaits, result how the last call ended and registry what self.clients
\* was when it began.
NoStop == [pc |-> "idle", idx |-> 0, n0 |-> 0, gathered |-> <<>>, bond |-> 0,
           calls |-> 0, result |-> "none", registry |-> <<>>]

InitAggregator ==
    /\ clock = StartTime
    /\ current_orderbook = OrderBook(StartTime)
    /\ lock = "free"
    /\ sem = MempoolSemaphore
    /\ pc = [c \in Callers |-> "idle"]
    /\ book = [c \in Callers |-> NoBook]
    /\ tasks = [c \in Callers |-> <<>>]
    /\ results = [c \in Callers |-> <<>>]
    /\ ret = [c \in Callers |-> NoBook]
    /\ rpc = [r \in Readers |-> "idle"]
    /\ rret = [r \in Readers |-> NoBook]
    /\ client = <<>>
    /\ clients = <<>>
    /\ ltask = <<>>
    /\ listener_tasks = <<>>
    /\ btask = <<>>
    /\ bond_task = 0
    /\ bond_queue = <<>>
    /\ bond_cache = <<>>
    /\ calc = [c \in LiveCallers |-> FALSE]
    /\ processed = <<>>
    /\ start = NoStart
    /\ stop = NoStop

\* Calls of start_continuous_listening and stop_listening are made in
\* turn, a call when the one before it is over.
InitIdle ==
    /\ InitAggregator
    /\ discipline = "sequential"

Init ==
    /\ node_feed \in [Nodes -> Feeds]
    /\ mempool = Answers
    /\ InitIdle
    /\ InitLib

update_orderbook(u) == UpdateGather(u) \/ UpdateLock(u) \/ UpdateInstall(u)

get_orderbook(r) == ReaderLock(r) \/ ReaderReturn(r)

calculate_bond_values(c) ==
    \E i \in 1..Len(tasks[c]) : TaskAcquire(c, i) \/ TaskComplete(c, i)

\* One caller making update_orderbook calls one after the other, whatever
\* the directory nodes advertise.
Next ==
    \/ update_orderbook("u1")
    \/ calculate_bond_values("u1")

Spec == Init /\ [][Next]_vars

\* Concurrent update_orderbook and get_orderbook calls.
InitSnap ==
    /\ node_feed = [n \in Nodes |->
                      IF n = 1
                      THEN [offers |-> <<WireOffer("A", <<1, 1>>)>>,
                            bonds |-> <<WireBond("A", 1, 0)>>]
                      ELSE [offers |-> <<>>, bonds |-> <<WireBond("A", 1, 1)>>]]
    /\ mempool = {"error", "confirmed"}
    /\ InitIdle
    /\ InitLib

NextSnap ==
    \/ \E u \in Updaters : update_orderbook(u)
    \/ \E u \in Updaters : calculate_bond_values(u)
    \/ \E r \in Readers : get_orderbook(r)

SpecSnap == InitSnap /\ [][NextSnap]_vars

(***************************************************************************)
(* get_live_orderbook                                                       *)
(***************************************************************************)
\* Lines 195-203: the caches of the registered clients, in the order of
\* self.clients, tagged with the client's node.  get_current_offers and
\* get_current_bonds give copies of what the client has cached.
RECURSIVE collect_from_clients(_, _, _, _)
collect_from_clients(ob, cls, cl, i) ==
    IF i > Len(cls) THEN ob
    ELSE collect_from_clients(
             add_fidelity_bonds(add_offers(ob, cl[cls[i].obj].offers, cls[i].node_id),
                                cl[cls[i].obj].bonds, cls[i].node_id),
             cls, cl, i + 1)

\* A plausible slip: the last bond seen for a key replaces the earlier one.
RECURSIVE unique_bonds_last(_, _, _)
unique_bonds_last(bonds, i, acc) ==
    IF i > Len(bonds) THEN acc
    ELSE unique_bonds_last(bonds, i + 1,
             IF \E j \in 1..Len(acc) : cache_key(acc[j]) = cache_key(bonds[i])
             THEN [j \in 1..Len(acc) |->
                     IF cache_key(acc[j]) = cache_key(bonds[i]) THEN bonds[i] ELSE acc[j]]
             ELSE Append(acc, bonds[i]))

\* Lines 205-210: unique_bonds, the first bond seen for each cache key, in
\* the order of first appearance (a dict keeps insertion order).
RECURSIVE unique_bonds(_, _, _)
unique_bonds(bonds, i, acc) ==
    IF i > Len(bonds) THEN acc
    ELSE unique_bonds(bonds, i + 1,
             IF \E j \in 1..Len(acc) : cache_key(acc[j]) = cache_key(bonds[i])
             THEN acc
             ELSE Append(acc, bonds[i]))

\* A plausible slip: the cached amount is not copied.
load_from_cache_no_amount(bonds, cache) ==
    [i \in 1..Len(bonds) |->
        IF cache_key(bonds[i]) \in DOMAIN cache
        THEN [bonds[i] EXCEPT
                !.bond_value = cache[cache_key(bonds[i])].bond_value,
                !.utxo_confirmation_timestamp =
                    cache[cache_key(bonds[i])].utxo_confirmation_timestamp]
        ELSE bonds[i]]

\* Lines 214-221: a bond whose key is in self._bond_cache takes the cached
\* bond's value, amount and confirmation timestamp.
load_from_cache(bonds, cache) ==
    [i \in 1..Len(bonds) |->
        IF cache_key(bonds[i]) \in DOMAIN cache
        THEN [bonds[i] EXCEPT
                !.bond_value = cache[cache_key(bonds[i])].bond_value,
                !.amount = cache[cache_key(bonds[i])].amount,
                !.utxo_confirmation_timestamp =
                    cache[cache_key(bonds[i])].utxo_confirmation_timestamp]
        ELSE bonds[i]]

\* A plausible slip: the test of line 231 is left out.
RECURSIVE store_in_cache_all(_, _, _)
store_in_cache_all(cache, bonds, i) ==
    IF i > Len(bonds) THEN cache
    ELSE store_in_cache_all(
             [k \in DOMAIN cache \cup {cache_key(bonds[i])} |->
                 IF k = cache_key(bonds[i]) THEN bonds[i] ELSE cache[k]],
             bonds, i + 1)

\* Lines 230-233: every valued bond is stored under its key.
RECURSIVE store_in_cache(_, _, _)
store_in_cache(cache, bonds, i) ==
    IF i > Len(bonds) THEN cache
    ELSE store_in_cache(
             IF bonds[i].bond_value # None
             THEN [k \in DOMAIN cache \cup {cache_key(bonds[i])} |->
                     IF k = cache_key(bonds[i]) THEN bonds[i] ELSE cache[k]]
             ELSE cache,
             bonds, i + 1)

\* Lines 237-242 (and 123-128): the bonds of the offer's counterparty whose
\* transaction id is the one the offer's bond data names.
matching_bonds(offer, bonds) ==
    SelectSeq(bonds, LAMBDA b : /\ b.counterparty = offer.counterparty
                                /\ b.utxo_txid = offer.fidelity_bond_data[1])

\* Lines 235-244 (and 121-130): an offer with bond data takes the value of
\* the first matching bond, if that bond has one.
attach_bond_values(offers, bonds) ==
    [i \in 1..Len(offers) |->
        IF offers[i].fidelity_bond_data # <<>>
        THEN LET m == matching_bonds(offers[i], bonds)
             IN  IF m # <<>> /\ m[1].bond_value # None
                 THEN [offers[i] EXCEPT !.fidelity_bond_value = m[1].bond_value]
                 ELSE offers[i]
        ELSE offers[i]]

\* Lines 193-228 (calculate_bonds), 193-210 and 246 (not calculate_bonds):
\* the clients' caches are merged into a new order book, its bonds are
\* deduplicated and, with calculate_bonds, take what the value cache has;
\* the valuation tasks are started.  Without calculate_bonds the call
\* returns the merged book at once.
LiveCall(g) ==
    /\ pc[g] = "idle"
    /\ clock < StartTime + MaxCalls
    /\ \E calculate_bonds \in BOOLEAN :
         LET merged == collect_from_clients(OrderBook(clock), clients, client, 1)
             deduped == [merged EXCEPT
                           !.fidelity_bonds = unique_bonds(merged.fidelity_bonds, 1, <<>>)]
             loaded == [deduped EXCEPT
                           !.fidelity_bonds = load_from_cache(deduped.fidelity_bonds, bond_cache)]
             batch == start_tasks(loaded.fidelity_bonds, 1, sem, <<>>)
         IN  /\ calc' = [calc EXCEPT ![g] = calculate_bonds]
             /\ IF calculate_bonds
                THEN /\ book' = [book EXCEPT ![g] = loaded]
                     /\ tasks' = [tasks EXCEPT ![g] = batch.tasks]
                     /\ sem' = batch.sem
                     /\ pc' = [pc EXCEPT ![g] = "valuing"]
                     /\ ret' = [ret EXCEPT ![g] = NoBook]
                ELSE /\ book' = [book EXCEPT ![g] = deduped]
                     /\ tasks' = [tasks EXCEPT ![g] = <<>>]
                     /\ ret' = [ret EXCEPT ![g] = deduped]
                     /\ UNCHANGED <<sem, pc>>
    /\ clock' = clock + 1
    /\ UNCHANGED <<results, bond_cache, processed, envVars, libVars, snapVars,
                   listenVars>>

\* Lines 228-246: the valuation has returned; the valued bonds are stored in
\* the value cache, the offers take their bonds' values, the book is returned.
LiveFinish(g) ==
    /\ g \in LiveCallers
    /\ pc[g] = "valuing"
    /\ gather_done(tasks[g])
    /\ LET orderbook == [book[g] EXCEPT
                           !.offers = attach_bond_values(book[g].offers,
                                                         book[g].fidelity_bonds)]
       IN  /\ bond_cache' = store_in_cache(bond_cache, book[g].fidelity_bonds, 1)
           /\ book' = [book EXCEPT ![g] = orderbook]
           /\ ret' = [ret EXCEPT ![g] = orderbook]
    /\ pc' = [pc EXCEPT ![g] = "idle"]
    /\ UNCHANGED <<tasks, results, calc, processed, clock, sem, envVars, libVars,
                   snapVars, listenVars>>

get_live_orderbook(g) == LiveCall(g) \/ LiveFinish(g)

(***************************************************************************)
(* _background_bond_calculator                                              *)
(***************************************************************************)
\* Where a turn of the loop may raise an exception: nowhere, in the
\* valuation (line 120), or when the offers take the values (121-130).
TurnOutcomes == {"ok", "valuation_error", "attach_error"}

\* A plausible slip: the handler logs the exception and the task ends.
after_exception_ends(task) == [task EXCEPT !.st = "failed"]

\* Lines 132-133: the exception is logged; the loop goes on.
after_exception(task) == task

\* Lines 117-133, one turn of the loop: self._bond_queue.get() returns only
\* when the queue holds an order book, the first that was put; the task
\* values the bonds of that book that have no value (each lookup under the
\* semaphore, which it has given back when the turn is over) and the offers
\* take their bonds' values.  The book is changed in place; the value cache
\* is not touched.  An exception ends the turn where it is raised.  A task
\* whose cancellation is requested gets CancelledError at its await and
\* takes no further turn.
BackgroundProcess(b) ==
    /\ btask[b].st = "running"
    /\ ~btask[b].cancel
    /\ bond_queue # <<>>
    /\ sem > 0
    /\ \E answer \in [1..Len(Head(bond_queue).fidelity_bonds) -> mempool],
          outcome \in TurnOutcomes :
         LET orderbook == Head(bond_queue)
             valued == [i \in 1..Len(orderbook.fidelity_bonds) |->
                          LET bond == orderbook.fidelity_bonds[i]
                          IN  calculate_bond_value_single(
                                  bond, get_transaction(bond.utxo_txid, answer[i]), clock)]
             after == IF outcome = "valuation_error" THEN orderbook
                      ELSE IF outcome = "attach_error"
                      THEN [orderbook EXCEPT !.fidelity_bonds = valued]
                      ELSE [orderbook EXCEPT
                              !.fidelity_bonds = valued,
                              !.offers = attach_bond_values(orderbook.offers, valued)]
         IN  /\ processed' = Append(processed, [book |-> after, outcome |-> outcome])
             /\ btask' = [btask EXCEPT
                             ![b] = IF outcome = "ok" THEN @ ELSE after_exception(@)]
    /\ bond_queue' = Tail(bond_queue)
    /\ UNCHANGED <<bond_cache, calc, client, clients, ltask, listener_tasks,
                   bond_task, start, stop, envVars, libVars, clock, sem, callVars,
                   snapVars>>

background_bond_calculator == \E b \in 1..Len(btask) : BackgroundProcess(b)

\* What a listening client may have cached of its node: at most one offer
\* and two bonds.
LiveFeeds ==
    {[offers |-> os, bonds |-> bs] :
        os \in {<<>>} \cup {<<o>> : o \in OfferUniverse},
        bs \in {<<>>} \cup {<<b>> : b \in BondUniverse}
               \cup ({<<a, b>> : a, b \in BondUniverse} \ {<<b, b>> : b \in BondUniverse})}

\* The state once start_continuous_listening has registered a client for
\* every node and each listener has cached what its node advertises.
Listening ==
    /\ client = [i \in 1..Len(NodeOrder) |->
                   [DirectoryClient(NodeOrder[i]) EXCEPT
                      !.connection = "open", !.running = TRUE, !.sent = PubMsg,
                      !.offers = node_feed[NodeOrder[i]].offers,
                      !.bonds = node_feed[NodeOrder[i]].bonds]]
    /\ clients = [i \in 1..Len(NodeOrder) |-> [node_id |-> NodeOrder[i], obj |-> i]]
    /\ ltask = [i \in 1..Len(NodeOrder) |-> ListenerTask(i)]
    /\ listener_tasks = [i \in 1..Len(NodeOrder) |-> i]
    /\ btask = <<BondTask>>
    /\ bond_task = 1
    /\ start = [NoStart EXCEPT !.calls = 1]
    /\ stop = NoStop

InitListening ==
    /\ clock = StartTime
    /\ current_orderbook = OrderBook(StartTime)
    /\ lock = "free"
    /\ sem = MempoolSemaphore
    /\ pc = [c \in Callers |-> "idle"]
    /\ book = [c \in Callers |-> NoBook]
    /\ tasks = [c \in Callers |-> <<>>]
    /\ results = [c \in Callers |-> <<>>]
    /\ ret = [c \in Callers |-> NoBook]
    /\ rpc = [r \in Readers |-> "idle"]
    /\ rret = [r \in Readers |-> NoBook]
    /\ discipline = "sequential"
    /\ Listening
    /\ InitLib
    /\ bond_queue = <<>>
    /\ bond_cache = <<>>
    /\ calc = [c \in LiveCallers |-> FALSE]
    /\ processed = <<>>

InitLive ==
    /\ node_feed \in [Nodes -> LiveFeeds]
    /\ mempool = Answers
    /\ InitListening

\* get_live_orderbook calls one after the other over listening clients.
NextLive ==
    \/ get_live_orderbook("g1")
    \/ calculate_bond_values("g1")

SpecLive == InitLive /\ [][NextLive]_vars

\* The same with the background valuation task, which
\* start_continuous_listening has created, taking its turns.
NextLiveBackground ==
    \/ NextLive
    \/ background_bond_calculator

SpecLiveBackground == InitLive /\ [][NextLiveBackground]_vars

\* What may be put on the valuation queue: an empty order book, or one
\* with an offer and its bond.
QueuedBooks ==
    {OrderBook(None),
     add_fidelity_bonds(add_offers(OrderBook(None), <<WireOffer("A", <<1, 0>>)>>, 1),
                        <<WireBond("A", 1, 0)>>, 1)}

\* self._bond_queue.put_nowait(orderbook), by whoever holds the aggregator:
\* no statement of the aggregator itself does it.  The book put is stamped
\* with the time.
QueuePut ==
    /\ clock < StartTime + MaxQueued
    /\ \E ob \in QueuedBooks :
         bond_queue' = Append(bond_queue, [ob EXCEPT !.timestamp = clock])
    /\ clock' = clock + 1
    /\ UNCHANGED <<bond_cache, calc, processed, client, clients, ltask, listener_tasks,
                   btask, bond_task, start, stop, envVars, libVars, sem, callVars,
                   snapVars>>

\* An update_orderbook call and a get_live_orderbook call at the same time,
\* of three bonds each.
InitSem ==
    /\ node_feed = [n \in Nodes |->
                      IF n = 1
                      THEN [offers |-> <<>>,
                            bonds |-> <<WireBond("A", 1, 0), WireBond("A", 1, 1),
                                        WireBond("B", 2, 1)>>]
                      ELSE [offers |-> <<>>, bonds |-> <<>>]]
    /\ mempool = {"error", "confirmed"}
    /\ InitListening

NextSem ==
    \/ update_orderbook("u1")
    \/ get_live_orderbook("g1")
    \/ \E c \in {"u1", "g1"} : \E i \in 1..Len(tasks[c]) : TaskAcquire(c, i)
    \/ \E c \in {"u1", "g1"} : \E i \in 1..Len(tasks[c]) : TaskComplete(c, i)

SpecSem == InitSem /\ [][NextSem]_vars

(***************************************************************************)
(* start_continuous_listening                                               *)
(***************************************************************************)
otherVars == <<envVars, libVars, clock, sem, callVars, snapVars, liveVars, bond_queue>>

\* self.clients[node_id] = client: a dict keeps the place of a key it has.
dict_set(d, node_id, obj) ==
    IF \E i \in 1..Len(d) : d[i].node_id = node_id
    THEN [i \in 1..Len(d) |->
            IF d[i].node_id = node_id THEN [node_id |-> node_id, obj |-> obj] ELSE d[i]]
    ELSE Append(d, [node_id |-> node_id, obj |-> obj])

\* Lines 140-147: the loop goes to its next node, makes the node's client and
\* awaits its connect(); after the last node the call returns.
start_next(s, cl) ==
    IF s.idx < Len(NodeOrder)
    THEN [start |-> [s EXCEPT !.pc = "connect", !.idx = s.idx + 1, !.obj = Len(cl) + 1],
          client |-> Append(cl, DirectoryClient(NodeOrder[s.idx + 1]))]
    ELSE [start |-> [s EXCEPT !.pc = "idle", !.idx = 0, !.obj = 0],
          client |-> cl]

\* A plausible slip: no handler around the body of the loop, the first
\* failure ends the call.
start_failed_abort(s, cl) ==
    [start |-> [s EXCEPT !.pc = "idle", !.idx = 0, !.obj = 0], client |-> cl]

\* Lines 165-167: the exception is logged and the loop goes on.
start_failed(s, cl) == start_next(s, cl)

\* How many calls of each of the two are made.
CallLimit == IF discipline = "sequential" THEN MaxListens ELSE MaxOverlap

\* Lines 136-147: the background valuation task is created and the loop
\* over the nodes begins.
StartBegin ==
    /\ start.pc = "idle"
    /\ start.calls < CallLimit
    /\ discipline = "sequential" => (stop.pc = "idle" /\ stop.calls = start.calls)
    /\ btask' = Append(btask, BondTask)
    /\ bond_task' = Len(btask) + 1
    /\ LET n == start_next([start EXCEPT !.calls = @ + 1, !.idx = 0], client)
       IN  start' = n.start /\ client' = n.client
    /\ UNCHANGED <<clients, ltask, listener_tasks, stop, otherVars>>

\* Line 147: connect() returns, or raises (lines 165-167: logged, next node).
StartConnect ==
    /\ start.pc = "connect"
    /\ \E outcome \in CallOutcomes :
         IF outcome = "ok"
         THEN /\ client' = [client EXCEPT ![start.obj].connection = "open"]
              /\ start' = [start EXCEPT !.pc = "peerlist"]
         ELSE LET n == start_failed(start, [client EXCEPT ![start.obj].failed = "connect"])
              IN  start' = n.start /\ client' = n.client
    /\ UNCHANGED <<clients, ltask, listener_tasks, btask, bond_task, stop, otherVars>>

\* Line 148: get_peerlist() returns, or raises (logged, next node).
StartPeerlist ==
    /\ start.pc = "peerlist"
    /\ \E outcome \in CallOutcomes :
         IF outcome = "ok"
         THEN /\ start' = [start EXCEPT !.pc = "send"]
              /\ client' = client
         ELSE LET n == start_failed(start, [client EXCEPT ![start.obj].failed = "peerlist"])
              IN  start' = n.start /\ client' = n.client
    /\ UNCHANGED <<clients, ltask, listener_tasks, btask, bond_task, stop, otherVars>>

\* Lines 150-163: the !orderbook request (type 687) is sent; the client is
\* registered and its listener task created.  Or send raises (logged, next
\* node).
StartSend ==
    /\ start.pc = "send"
    /\ \E outcome \in CallOutcomes :
         IF outcome = "ok"
         THEN LET cl == [client EXCEPT ![start.obj].sent = PubMsg,
                                       ![start.obj].running = TRUE]
                  n == start_next(start, cl)
              IN  /\ clients' = dict_set(clients, client[start.obj].node_id, start.obj)
                  /\ ltask' = Append(ltask, ListenerTask(start.obj))
                  /\ listener_tasks' = Append(listener_tasks, Len(ltask) + 1)
                  /\ start' = n.start
                  /\ client' = n.client
         ELSE LET n == start_failed(start, [client EXCEPT ![start.obj].failed = "send"])
              IN  /\ start' = n.start
                  /\ client' = n.client
                  /\ UNCHANGED <<clients, ltask, listener_tasks>>
    /\ UNCHANGED <<btask, bond_task, stop, otherVars>>

start_continuous_listening == StartBegin \/ StartConnect \/ StartPeerlist \/ StartSend

(***************************************************************************)
(* The tasks start_continuous_listening created.                            *)
(***************************************************************************)
\* listen_continuously: the node's announcements reach the client's cache.
ListenerReceive(t) ==
    /\ ltask[t].st = "running"
    /\ ~ltask[t].cancel
    /\ LET o == ltask[t].obj
           feed == node_feed[client[o].node_id]
       IN  /\ client[o].running
           /\ <<client[o].offers, client[o].bonds>> # <<feed.offers, feed.bonds>>
           /\ client' = [client EXCEPT ![o].offers = feed.offers,
                                       ![o].bonds = feed.bonds]
    /\ UNCHANGED <<clients, ltask, listener_tasks, btask, bond_task, start, stop,
                   otherVars>>

\* listen_continuously: a transport error ends the task with an exception.
ListenerFail(t) ==
    /\ ltask[t].st = "running"
    /\ ~ltask[t].cancel
    /\ ltask' = [ltask EXCEPT ![t].st = "failed"]
    /\ UNCHANGED <<client, clients, listener_tasks, btask, bond_task, start, stop,
                   otherVars>>

\* A cancelled listener task ends with CancelledError.
ListenerCancelled(t) ==
    /\ ltask[t].st = "running"
    /\ ltask[t].cancel
    /\ ltask' = [ltask EXCEPT ![t].st = "cancelled"]
    /\ UNCHANGED <<client, clients, listener_tasks, btask, bond_task, start, stop,
                   otherVars>>

\* Lines 116-133: the background valuation task waits in self._bond_queue.get()
\* (except Exception does not catch CancelledError); cancelled, it ends.
BondTaskCancelled(b) ==
    /\ btask[b].st = "running"
    /\ btask[b].cancel
    /\ btask' = [btask EXCEPT ![b].st = "cancelled"]
    /\ UNCHANGED <<client, clients, ltask, listener_tasks, bond_task, start, stop,
                   otherVars>>

(***************************************************************************)
(* stop_listening                                                           *)
(***************************************************************************)
\* A plausible slip: the gather of line 184 without return_exceptions.
gather_listeners_raises_strict(ts) == \E i \in 1..Len(ts) : ts[i].st = "failed"

\* Line 184: gather(*self.listener_tasks, return_exceptions=True) hands the
\* tasks' exceptions back as results; it does not raise.
gather_listeners_raises(ts) == FALSE

\* Lines 186-190 up to the first await client.close(): with no client
\* registered both registries are cleared and the call returns.
stop_close_block(l) ==
    IF l.clients = <<>>
    THEN [l EXCEPT !.listener_tasks = <<>>,
                   !.stop = [@ EXCEPT !.pc = "idle", !.idx = 0, !.n0 = 0,
                                      !.gathered = <<>>, !.result = "returned"]]
    ELSE [l EXCEPT !.stop = [@ EXCEPT !.pc = "closing", !.idx = 1,
                                      !.n0 = Len(l.clients), !.gathered = <<>>]]

\* Lines 177-184 up to the await of the gather: every registered client is
\* told to stop and every listener task is cancelled; with no listener task
\* the call goes on to close the clients.
stop_listeners_block(l) ==
    LET stopped ==
          [l EXCEPT
             !.client = [o \in 1..Len(l.client) |->
                           IF \E i \in 1..Len(l.clients) : l.clients[i].obj = o
                           THEN [l.client[o] EXCEPT !.running = FALSE]
                           ELSE l.client[o]],
             !.ltask = [t \in 1..Len(l.ltask) |->
                          IF /\ \E i \in 1..Len(l.listener_tasks) : l.listener_tasks[i] = t
                             /\ l.ltask[t].st = "running"
                          THEN [l.ltask[t] EXCEPT !.cancel = TRUE]
                          ELSE l.ltask[t]]]
    IN  IF l.listener_tasks = <<>>
        THEN stop_close_block(stopped)
        ELSE [stopped EXCEPT !.stop = [@ EXCEPT !.pc = "await_listeners",
                                                !.gathered = l.listener_tasks]]

\* The registries and objects stop_listening works on, and their update.
ListenState ==
    [client |-> client, clients |-> clients, ltask |-> ltask,
     listener_tasks |-> listener_tasks, stop |-> stop]

SetListenState(l) ==
    /\ client' = l.client
    /\ clients' = l.clients
    /\ ltask' = l.ltask
    /\ listener_tasks' = l.listener_tasks
    /\ stop' = l.stop

\* Lines 170-175: the background valuation task is cancelled and awaited.
StopBegin ==
    /\ stop.pc = "idle"
    /\ stop.calls < CallLimit
    /\ discipline = "sequential" => (start.pc = "idle" /\ start.calls = stop.calls + 1)
    /\ LET l == [ListenState EXCEPT !.stop = [@ EXCEPT !.calls = @ + 1,
                                                        !.result = "none",
                                                        !.registry = clients]]
       IN  IF bond_task # 0
           THEN /\ btask' = IF btask[bond_task].st = "running"
                            THEN [btask EXCEPT ![bond_task].cancel = TRUE]
                            ELSE btask
                /\ SetListenState([l EXCEPT !.stop = [@ EXCEPT !.pc = "await_bond",
                                                               !.bond = bond_task]])
           ELSE /\ btask' = btask
                /\ SetListenState(stop_listeners_block(l))
    /\ UNCHANGED <<bond_task, start, otherVars>>

\* Lines 174-184: the background task has ended (its CancelledError is
\* suppressed); the clients are told to stop, the listeners cancelled.
StopBondAwaited ==
    /\ stop.pc = "await_bond"
    /\ btask[stop.bond].st # "running"
    /\ SetListenState(stop_listeners_block(ListenState))
    /\ UNCHANGED <<btask, bond_task, start, otherVars>>

\* Lines 184-187: every gathered listener task has ended; the loop that
\* closes the clients begins.
StopListenersAwaited ==
    /\ stop.pc = "await_listeners"
    /\ \A i \in 1..Len(stop.gathered) : ltask[stop.gathered[i]].st # "running"
    /\ IF gather_listeners_raises([i \in 1..Len(stop.gathered) |-> ltask[stop.gathered[i]]])
       THEN SetListenState([ListenState EXCEPT
                !.stop = [@ EXCEPT !.pc = "idle", !.gathered = <<>>,
                                   !.result = "listener_error"]])
       ELSE SetListenState(stop_close_block(ListenState))
    /\ UNCHANGED <<btask, bond_task, start, otherVars>>

\* Lines 186-190: await client.close() of the client the loop is at returns
\* or raises.  There is no handler around it: an exception ends the call.
\* After the last client both registries are cleared and the call returns;
\* a dict that changed size under the loop raises RuntimeError.
StopClose ==
    /\ stop.pc = "closing"
    /\ \E outcome \in CloseOutcomes :
         LET o == clients[stop.idx].obj
             over == [stop EXCEPT !.pc = "idle", !.idx = 0, !.n0 = 0]
         IN  /\ client' = [client EXCEPT
                              ![o].close_attempted = TRUE,
                              ![o].connection = IF outcome = "ok" THEN "closed" ELSE @]
             /\ IF outcome = "error"
                THEN /\ stop' = [over EXCEPT !.result = "close_error"]
                     /\ UNCHANGED <<clients, listener_tasks>>
                ELSE IF Len(clients) # stop.n0
                THEN /\ stop' = [over EXCEPT !.result = "dict_changed"]
                     /\ UNCHANGED <<clients, listener_tasks>>
                ELSE IF stop.idx = stop.n0
                THEN /\ stop' = [over EXCEPT !.result = "returned"]
                     /\ clients' = <<>>
                     /\ listener_tasks' = <<>>
                ELSE /\ stop' = [stop EXCEPT !.idx = @ + 1]
                     /\ UNCHANGED <<clients, listener_tasks>>
    /\ UNCHANGED <<ltask, btask, bond_task, start, otherVars>>

stop_listening == StopBegin \/ StopBondAwaited \/ StopListenersAwaited \/ StopClose

\* start_continuous_listening and stop_listening called in turn, a call
\* made when the one before it is over.
InitListen ==
    /\ node_feed = [n \in Nodes |->
                      IF n = 1
                      THEN [offers |-> <<WireOffer("A", <<1, 1>>)>>,
                            bonds |-> <<WireBond("A", 1, 0)>>]
                      ELSE [offers |-> <<>>, bonds |-> <<WireBond("A", 1, 1)>>]]
    /\ mempool = Answers
    /\ InitIdle
    /\ InitLib

NextListen ==
    \/ start_continuous_listening
    \/ stop_listening
    \/ \E t \in 1..Len(ltask) : ListenerReceive(t)
    \/ \E t \in 1..Len(ltask) : ListenerFail(t)
    \/ \E t \in 1..Len(ltask) : ListenerCancelled(t)
    \/ \E b \in 1..Len(btask) : BondTaskCancelled(b)

SpecListen == InitListen /\ [][NextListen]_vars

\* The same calls made at any time: a start after a start with no stop in
\* between, a stop while a start is still connecting, a stop with no start.
InitOverlap ==
    /\ node_feed = [n \in Nodes |->
                      IF n = 1
                      THEN [offers |-> <<WireOffer("A", <<1, 1>>)>>,
                            bonds |-> <<WireBond("A", 1, 0)>>]
                      ELSE [offers |-> <<>>, bonds |-> <<WireBond("A", 1, 1)>>]]
    /\ mempool = Answers
    /\ InitAggregator
    /\ discipline = "any"
    /\ InitLib

SpecOverlap == InitOverlap /\ [][NextListen]_vars

\* The background valuation task with order books put on its queue, until
\* stop_listening cancels it.
InitConsumer ==
    /\ node_feed = [n \in Nodes |-> [offers |-> <<>>, bonds |-> <<>>]]
    /\ mempool = {"error", "confirmed"}
    /\ InitListening

NextConsumer ==
    \/ QueuePut
    \/ background_bond_calculator
    \/ stop_listening
    \/ \E t \in 1..Len(ltask) : ListenerCancelled(t)
    \/ \E b \in 1..Len(btask) : BondTaskCancelled(b)

SpecConsumer == InitConsumer /\ [][NextConsumer]_vars

\* get_live_orderbook and update_orderbook calls over listening clients,
\* with the background valuation task at work on books put on its queue.
InitCache ==
    /\ node_feed = [n \in Nodes |->
                      IF n = 1
                      THEN [offers |-> <<WireOffer("A", <<1, 1>>)>>,
                            bonds |-> <<WireBond("A", 1, 0)>>]
                      ELSE [offers |-> <<>>, bonds |-> <<WireBond("A", 1, 1)>>]]
    /\ mempool = {"error", "confirmed"}
    /\ InitListening

NextCache ==
    \/ get_live_orderbook("g1")
    \/ update_orderbook("u1")
    \/ \E c \in {"u1", "g1"} : calculate_bond_values(c)
    \/ QueuePut
    \/ background_bond_calculator

SpecCache == InitCache /\ [][NextCache]_vars

\* The event loop runs a task that can run: the background task takes its
\* turn when the queue holds a book, and ends when it is cancelled.
SpecConsumerLive ==
    /\ SpecConsumer
    /\ WF_vars(background_bond_calculator)
    /\ WF_vars(\E b \in 1..Len(btask) : BondTaskCancelled(b))

(***************************************************************************)
(* BondValidator (orderbook_watcher/bond_validator.py) over MempoolAPI      *)
(* (jmcore/mempool_api.py).                                                 *)
(***************************************************************************)
\* What a transaction lookup of the validator may be answered.
ValidatorAnswers == {"error", "malformed", "unconfirmed", "confirmed_no_height", "confirmed"}

\* MempoolAPI.get_block_height: the tip, or the request fails.  It does not
\* go through _get: its failure is an httpx error, not a MempoolAPIError.
TipAnswers ==
    {[raised |-> TRUE, height |-> None]}
        \cup {[raised |-> FALSE, height |-> h] : h \in {BlockHeight - 1, BlockHeight}}

NoTip == [raised |-> FALSE, height |-> None]

\* MempoolAPI.get_utxo_confirmations, given what get_transaction and
\* get_block_height answer: an int, None (absent), or an exception that is
\* not a MempoolAPIError goes through.
get_utxo_confirmations(tx, tip) ==
    IF tx.raised
    THEN [raised |-> ~tx.api_error, value |-> None, tip_asked |-> FALSE]
    ELSE IF ~tx.confirmed \/ tx.block_height = None
    THEN [raised |-> FALSE, value |-> None, tip_asked |-> FALSE]
    ELSE IF tip.raised
    THEN [raised |-> TRUE, value |-> None, tip_asked |-> TRUE]
    ELSE LET confirmations == tip.height - tx.block_height + 1
         IN  [raised |-> FALSE,
              value |-> IF confirmations > 0 THEN confirmations ELSE 0,
              tip_asked |-> TRUE]

\* MempoolAPI.get_utxo_value, given what get_transaction answers.
get_utxo_value(tx, vout) ==
    IF tx.raised THEN [raised |-> ~tx.api_error, value |-> None]
    ELSE IF vout >= Len(tx.vout) THEN [raised |-> FALSE, value |-> None]
    ELSE [raised |-> FALSE, value |-> tx.vout[vout + 1]]

\* A plausible slip: "< 0" for "< 1" in the test of line 33.
check_confirmations_nonnegative(c) ==
    IF c.raised THEN "raised"
    ELSE IF c.value = None THEN "absent"
    ELSE IF c.value < 0 THEN "unconfirmed"
    ELSE "ok"

\* validate_bond, lines 23-38: what the confirmations decide.
check_confirmations(c) ==
    IF c.raised THEN "raised"
    ELSE IF c.value = None THEN "absent"
    ELSE IF c.value < 1 THEN "unconfirmed"
    ELSE "ok"

\* validate_bond, lines 40-52: what the value decides.
check_value(v, bond) ==
    IF v.raised THEN "raised"
    ELSE IF v.value = None THEN "absent"
    ELSE IF v.value # bond.amount THEN "mismatch"
    ELSE "ok"

\* One validate_bond call: where it is, what it returned, and the answers
\* its lookups got (NoTx, NoTip: lookup not made).  raised: an exception
\* left the call.
ValidateTask ==
    [pc |-> "confirmations", result |-> FALSE, raised |-> FALSE, verdict |-> "none",
     tx1 |-> NoTx, tip |-> NoTip, tx2 |-> NoTx]

\* A plausible slip: the loop of lines 68-74 ends at the first bond that
\* did not pass.
RECURSIVE select_valid_until_failure(_, _, _, _)
select_valid_until_failure(bonds, ts, i, acc) ==
    IF i > Len(bonds) THEN acc
    ELSE IF ts[i].raised \/ ~ts[i].result THEN acc
    ELSE select_valid_until_failure(bonds, ts, i + 1, Append(acc, bonds[i]))

\* validate_bonds, lines 67-74: the bonds whose task returned true.
RECURSIVE select_valid(_, _, _, _)
select_valid(bonds, ts, i, acc) ==
    IF i > Len(bonds) THEN acc
    ELSE IF ts[i].raised THEN select_valid(bonds, ts, i + 1, acc)
    ELSE IF ts[i].result THEN select_valid(bonds, ts, i + 1, Append(acc, bonds[i]))
    ELSE select_valid(bonds, ts, i + 1, acc)

\* The bonds a validate_bonds call is given: the first can pass, the second
\* claims an amount its output does not have, the third names an output
\* its transaction does not have.
ValidatorBonds ==
    {[WireBond("A", 1, 0) EXCEPT !.amount = TxVout(1)[1]],
     WireBond("A", 1, 1),
     WireBond("B", 2, 1)}

RECURSIVE SeqsUpTo(_, _)
SeqsUpTo(S, n) ==
    IF n = 0 THEN {<<>>}
    ELSE LET shorter == SeqsUpTo(S, n - 1)
         IN  shorter \cup {Append(q, x) : q \in shorter, x \in S}

aggVars == <<envVars, clock, sem, callVars, snapVars, liveVars, listenVars>>

\* Lines 63-65: validate_bonds(bonds) makes one validate_bond call per bond
\* and gathers them; each runs to its first await.
ValidateCall ==
    /\ vret.pc = "idle"
    /\ \E bonds \in SeqsUpTo(ValidatorBonds, MaxValidate) :
         /\ vbonds' = bonds
         /\ vtask' = [i \in 1..Len(bonds) |-> ValidateTask]
    /\ vret' = [pc |-> "gather", returned |-> FALSE, bonds |-> <<>>]
    /\ UNCHANGED <<peerVars, scriptVars, aggVars>>

\* validate_bond, lines 22-38 and 58-60: get_utxo_confirmations returns or
\* raises.
ValidateConfirmations(i) ==
    /\ vtask[i].pc = "confirmations"
    /\ \E a \in ValidatorAnswers : \E t \in TipAnswers :
         LET tx == get_transaction(vbonds[i].utxo_txid, a)
             c == get_utxo_confirmations(tx, t)
             verdict == check_confirmations(c)
         IN  /\ (~c.tip_asked) => t = CHOOSE x \in TipAnswers : TRUE
             /\ vtask' = [vtask EXCEPT
                    ![i].tx1 = tx,
                    ![i].tip = IF c.tip_asked THEN t ELSE NoTip,
                    ![i].verdict = verdict,
                    ![i].pc = IF verdict = "ok" THEN "value" ELSE "done"]
    /\ UNCHANGED <<vbonds, vret, peerVars, scriptVars, aggVars>>

\* validate_bond, lines 40-60: get_utxo_value returns or raises.
ValidateValue(i) ==
    /\ vtask[i].pc = "value"
    /\ \E a \in ValidatorAnswers :
         LET tx == get_transaction(vbonds[i].utxo_txid, a)
             verdict == check_value(get_utxo_value(tx, vbonds[i].utxo_vout), vbonds[i])
         IN  vtask' = [vtask EXCEPT
                ![i].tx2 = tx,
                ![i].verdict = verdict,
                ![i].result = (verdict = "ok"),
                ![i].pc = "done"]
    /\ UNCHANGED <<vbonds, vret, peerVars, scriptVars, aggVars>>

\* validate_bonds, lines 65-76: the gather returns; the valid bonds are
\* selected and returned.
ValidateReturn ==
    /\ vret.pc = "gather"
    /\ \A i \in 1..Len(vtask) : vtask[i].pc = "done"
    /\ vret' = [pc |-> "idle", returned |-> TRUE,
                bonds |-> select_valid(vbonds, vtask, 1, <<>>)]
    /\ UNCHANGED <<vbonds, vtask, peerVars, scriptVars, aggVars>>

validate_bond(i) == ValidateConfirmations(i) \/ ValidateValue(i)

validate_bonds == ValidateCall \/ ValidateReturn

InitValidate ==
    /\ node_feed = [n \in Nodes |-> [offers |-> <<>>, bonds |-> <<>>]]
    /\ mempool = Answers
    /\ InitIdle
    /\ InitLib

NextValidate ==
    \/ validate_bonds
    \/ \E i \in 1..Len(vtask) : validate_bond(i)

SpecValidate == InitValidate /\ [][NextValidate]_vars

(***************************************************************************)
(* DirectoryClient.get_peerlist (not among the sources; after section 4.1   *)
(* of the specification and tests/test_directory_client.py).  A string is   *)
(* the sequence of its characters.                                          *)
(***************************************************************************)
\* str.split(sep) from position i on, cur being the piece begun.
RECURSIVE split(_, _, _, _)
split(str, sep, i, cur) ==
    IF i > Len(str) THEN <<cur>>
    ELSE IF str[i] = sep THEN <<cur>> \o split(str, sep, i + 1, <<>>)
    ELSE split(str, sep, i + 1, Append(cur, str[i]))

\* The mapping with nick |-> location added (a dict: the last one wins).
put_peer(peers, nick, location) ==
    [k \in DOMAIN peers \cup {nick} |-> IF k = nick THEN location ELSE peers[k]]

\* The peer-list line parsed: comma-separated nick;location entries.
RECURSIVE parse_entries(_, _, _)
parse_entries(entries, i, peers) ==
    IF i > Len(entries) THEN peers
    ELSE LET parts == split(entries[i], ";", 1, <<>>)
         IN  parse_entries(entries, i + 1,
                 IF Len(parts) >= 2 /\ parts[1] # <<>>
                 THEN put_peer(peers, parts[1], parts[2])
                 ELSE peers)

parse_peerlist(line) == parse_entries(split(line, ",", 1, <<>>), 1, <<>>)

\* A plausible slip: the first message is taken for the answer, whatever
\* its type.
is_peerlist_any(msg) == TRUE

\* The message is the peer-list response.
is_peerlist(msg) == msg.type = "PEERLIST"

\* What a directory node does: the line of a peer list, nick;location
\* entries joined by commas.
RECURSIVE join_entries(_, _)
join_entries(entries, i) ==
    IF i > Len(entries) THEN <<>>
    ELSE (IF i > 1 THEN <<",">> ELSE <<>>)
            \o entries[i][1] \o <<";">> \o entries[i][2]
            \o join_entries(entries, i + 1)

\* The peer lists a node may send, as (nick, location) entries.
PeerLists ==
    {<< <<<<"n", "1">>, <<"p", "1", ":", "5">>>>, <<<<"n", "2">>, <<"p", "2", ":", "5">>>> >>,
     << <<<<"n", "1">>, <<"p", "1", ":", "5">>>> >>}

\* The messages a node may send: peer lists, and unrelated messages, one
\* of which has a line that reads like a peer list.  entries is what the
\* node serialized into the line; it is not on the wire.
Messages ==
    {[type |-> "PEERLIST", line |-> join_entries(e, 1), entries |-> e] : e \in PeerLists}
        \cup {[type |-> "PUBMSG", line |-> <<"h", "i">>, entries |-> <<>>],
              [type |-> "PRIVMSG", line |-> <<"n", "3", ";", "p", "3">>, entries |-> <<>>]}

\* get_peerlist is called: the request is sent, the first receive awaited.
PeerlistRequest ==
    /\ peer.pc = "idle"
    /\ peer.raised = "none" /\ peer.read = 0
    /\ peer' = [peer EXCEPT !.pc = "receive"]
    /\ UNCHANGED <<stream, validatorVars, scriptVars, aggVars>>

\* A message arrives: the peer-list response is parsed and returned, any
\* other message is logged and discarded.
PeerlistReceive ==
    /\ peer.pc = "receive"
    /\ peer.read < Len(stream)
    /\ LET msg == stream[peer.read + 1]
       IN  IF is_peerlist(msg)
           THEN peer' = [peer EXCEPT !.pc = "idle", !.read = @ + 1,
                                     !.peers = parse_peerlist(msg.line)]
           ELSE peer' = [peer EXCEPT !.read = @ + 1,
                                     !.discarded = Append(@, peer.read + 1)]
    /\ UNCHANGED <<stream, validatorVars, scriptVars, aggVars>>

\* No message arrives within the timeout: the call fails.
PeerlistTimeout ==
    /\ peer.pc = "receive"
    /\ peer.read = Len(stream)
    /\ peer' = [peer EXCEPT !.pc = "idle", !.raised = "timeout"]
    /\ UNCHANGED <<stream, validatorVars, scriptVars, aggVars>>

get_peerlist == PeerlistRequest \/ PeerlistReceive \/ PeerlistTimeout

InitPeerlist ==
    /\ node_feed = [n \in Nodes |-> [offers |-> <<>>, bonds |-> <<>>]]
    /\ mempool = Answers
    /\ InitIdle
    /\ NoValidation
    /\ stream \in SeqsUpTo(Messages, MaxMessages)
    /\ peer = NoPeerlist
    /\ sarg = NoArgs
    /\ sout = NoOutput

NextPeerlist == get_peerlist

SpecPeerlist == InitPeerlist /\ [][NextPeerlist]_vars

(***************************************************************************)
(* jmcore/btc_script.py.  bytes are sequences of integers in 0..255, a hex  *)
(* string is the sequence of its characters.                                *)
(***************************************************************************)
HexDigits == <<"0", "1", "2", "3", "4", "5", "6", "7", "8", "9",
               "a", "b", "c", "d", "e", "f">>

\* The value of a hexadecimal digit (None: not one).
hex_value(ch) ==
    IF \E v \in 1..16 : HexDigits[v] = ch
    THEN (CHOOSE v \in 1..16 : HexDigits[v] = ch) - 1
    ELSE None

\* bytes.fromhex(hex): two digits a byte; ValueError for a string of odd
\* length or with a character that is not a digit.
fromhex(hex) ==
    IF Len(hex) % 2 = 1 \/ \E i \in 1..Len(hex) : hex_value(hex[i]) = None
    THEN [raised |-> TRUE, bytes |-> <<>>]
    ELSE [raised |-> FALSE,
          bytes |-> [i \in 1..(Len(hex) \div 2) |->
                       16 * hex_value(hex[2 * i - 1]) + hex_value(hex[2 * i])]]

\* Lines 81-84: the bytes of absvalue, least significant first.
RECURSIVE magnitude_bytes(_)
magnitude_bytes(absvalue) ==
    IF absvalue = 0 THEN <<>>
    ELSE <<absvalue % 256>> \o magnitude_bytes(absvalue \div 256)

\* A plausible slip: the sign goes into the last byte whatever its top bit.
encode_scriptnum_no_extra_byte(n) ==
    IF n = 0 THEN <<>>
    ELSE LET neg == n < 0
             result == magnitude_bytes(IF neg THEN 0 - n ELSE n)
             last == result[Len(result)]
         IN  IF neg /\ last < 128
             THEN [result EXCEPT ![Len(result)] = last + 128]
             ELSE result

\* _encode_scriptnum, lines 65-91.
_encode_scriptnum(n) ==
    IF n = 0 THEN <<>>
    ELSE LET neg == n < 0
             result == magnitude_bytes(IF neg THEN 0 - n ELSE n)
             last == result[Len(result)]
         IN  IF last >= 128
             THEN Append(result, IF neg THEN 128 ELSE 0)
             ELSE IF neg
                  THEN [result EXCEPT ![Len(result)] = last + 128]
                  ELSE result

\* A plausible slip: the data without its length prefix.
push_data_bare(data) == data

\* _push_data, lines 94-113.
_push_data(data) ==
    LET data_len == Len(data)
    IN  IF data_len <= 75 THEN <<data_len>> \o data
        ELSE IF data_len <= 255 THEN <<76, data_len>> \o data
        ELSE IF data_len <= 65535
             THEN <<77, data_len % 256, data_len \div 256>> \o data
             ELSE <<78, data_len % 256, (data_len \div 256) % 256,
                    (data_len \div 65536) % 256, data_len \div 16777216>> \o data

\* A plausible slip: only a key that is too short is refused.
pubkey_length_ok_at_least(len) == len >= 33

\* Line 29: len(pubkey_bytes) != 33.
pubkey_length_ok(len) == len = 33

\* mk_freeze_script, lines 11-41.
mk_freeze_script(pubkey_hex, locktime) ==
    LET pubkey_bytes == fromhex(pubkey_hex)
    IN  IF pubkey_bytes.raised
        THEN [done |-> TRUE, raised |-> TRUE, message |-> <<"fromhex">>, bytes |-> <<>>]
        ELSE IF ~pubkey_length_ok(Len(pubkey_bytes.bytes))
        THEN [done |-> TRUE, raised |-> TRUE,
              message |-> <<"Invalid pubkey length: ", Len(pubkey_bytes.bytes),
                            ", expected ", 33>>,
              bytes |-> <<>>]
        ELSE [done |-> TRUE, raised |-> FALSE, message |-> <<>>,
              bytes |-> _push_data(_encode_scriptnum(locktime))
                            \o <<177, 117>>
                            \o _push_data(pubkey_bytes.bytes)
                            \o <<172>>]

\* What a caller has at hand: bytes.hex(), two digits a byte.
RECURSIVE tohex(_, _)
tohex(bytes, i) ==
    IF i > Len(bytes) THEN <<>>
    ELSE <<HexDigits[(bytes[i] \div 16) + 1], HexDigits[(bytes[i] % 16) + 1]>>
            \o tohex(bytes, i + 1)

\* Keys of 0, 2, 32, 33, 34 and 65 bytes: a first byte and a byte that
\* fills the rest, the opcodes' own values among them.
PubkeyBytes ==
    {[i \in 1..len |-> IF i = 1 THEN first ELSE fill] :
        len \in {0, 2, 32, 33, 34, 65}, first \in {2, 3},
        fill \in {0, 17, 117, 172, 177, 255}}

PubkeyHexes == {tohex(k, 1) : k \in PubkeyBytes} \cup {<<"a", "b", "c">>}

\* Locktimes: zero, the ends of the one-, two- and three-byte ranges, the
\* opcodes' own values, a date, negatives.
Locktimes ==
    {0, 1, 117, 127, 128, 172, 177, 255, 256, 32767, 32768, 45489, 8388607,
     8388608, 1956528000, 0 - 1, 0 - 127, 0 - 128, 0 - 177, 0 - 45489}

ScriptNums == ((0 - MaxScriptNum)..MaxScriptNum) \cup Locktimes

\* mk_freeze_script(pubkey_hex, locktime) is called.
MkFreezeScript ==
    /\ sarg.fn = "mk_freeze_script"
    /\ ~sout.done
    /\ sout' = mk_freeze_script(sarg.pubkey_hex, sarg.locktime)
    /\ UNCHANGED <<sarg, validatorVars, peerVars, aggVars>>

\* _encode_scriptnum(n) is called.
EncodeScriptnum ==
    /\ sarg.fn = "_encode_scriptnum"
    /\ ~sout.done
    /\ sout' = [NoOutput EXCEPT !.done = TRUE, !.bytes = _encode_scriptnum(sarg.n)]
    /\ UNCHANGED <<sarg, validatorVars, peerVars, aggVars>>

InitScript ==
    /\ node_feed = [n \in Nodes |-> [offers |-> <<>>, bonds |-> <<>>]]
    /\ mempool = Answers
    /\ InitIdle
    /\ NoValidation
    /\ stream = <<>>
    /\ peer = NoPeerlist
    /\ sout = NoOutput

InitFreeze ==
    /\ InitScript
    /\ sarg \in [fn : {"mk_freeze_script"}, pubkey_hex : PubkeyHexes, locktime : Locktimes]

NextFreeze == MkFreezeScript

SpecFreeze == InitFreeze /\ [][NextFreeze]_vars

InitScriptnum ==
    /\ InitScript
    /\ sarg \in [fn : {"_encode_scriptnum"}, n : ScriptNums]

NextScriptnum == EncodeScriptnum

SpecScriptnum == InitScriptnum /\ [][NextScriptnum]_vars

\* The round constants and the initial hash value of SHA-256.
sha256_k ==
    <<
      <<17034, 12184>>, <<28983, 17553>>, <<46528, 64463>>, <<59829, 56229>>,
      <<14678, 49755>>, <<23025, 4593>>, <<37439, 33444>>, <<43804, 24277>>,
      <<55303, 43672>>, <<4739, 23297>>, <<9265, 34238>>, <<21772, 32195>>,
      <<29374, 23924>>, <<32990, 45566>>, <<39900, 1703>>, <<49563, 61812>>,
      <<58523, 27073>>, <<61374, 18310>>, <<4033, 40390>>, <<9228, 41420>>,
      <<11753, 11375>>, <<19060, 33962>>, <<23728, 43484>>, <<30457, 35034>>,
      <<38974, 20818>>, <<43057, 50797>>, <<45059, 10184>>, <<48985, 32711>>,
      <<50912, 3059>>, <<54695, 37191>>, <<1738, 25425>>, <<5161, 10599>>,
      <<10167, 2693>>, <<11803, 8504>>, <<19756, 28156>>, <<21304, 3347>>,
      <<25866, 29524>>, <<30314, 2747>>, <<33218, 51502>>, <<37490, 11397>>,
      <<41663, 59553>>, <<43034, 26187>>, <<49739, 35696>>, <<51052, 20899>>,
      <<53650, 59417>>, <<54937, 1572>>, <<62478, 13701>>, <<4202, 41072>>,
      <<6564, 49430>>, <<7735, 27656>>, <<10056, 30540>>, <<13488, 48309>>,
      <<14620, 3251>>, <<20184, 43594>>, <<23452, 51791>>, <<26670, 28659>>,
      <<29839, 33518>>, <<30885, 25455>>, <<33992, 30740>>, <<36039, 520>>,
      <<37054, 65530>>, <<42064, 27883>>, <<48889, 41975>>, <<50801, 30962>>
    >>

sha256_h0 ==
    <<
      <<27145, 58983>>, <<47975, 44677>>, <<15470, 62322>>, <<42319, 62778>>,
      <<20750, 21119>>, <<39685, 26764>>, <<8067, 55723>>, <<23520, 52505>>
    >>

\* hashlib.sha256(message).digest().  32-bit words are pairs <<high, low>>
\* of 16-bit halves.
sha256(message) ==
    LET
        RECURSIVE xor16(_, _)
        xor16(a, b) ==
            IF a = 0 THEN b
            ELSE IF b = 0 THEN a
            ELSE 2 * xor16(a \div 2, b \div 2) + ((a + b) % 2)

        RECURSIVE and16(_, _)
        and16(a, b) ==
            IF a = 0 \/ b = 0 THEN 0
            ELSE 2 * and16(a \div 2, b \div 2) + (a % 2) * (b % 2)

        word_xor(x, y) == <<xor16(x[1], y[1]), xor16(x[2], y[2])>>
        word_and(x, y) == <<and16(x[1], y[1]), and16(x[2], y[2])>>
        word_not(x) == <<65535 - x[1], 65535 - x[2]>>

        \* Addition modulo 2^32.
        word_add(x, y) ==
            LET low == x[2] + y[2]
            IN  <<(x[1] + y[1] + (low \div 65536)) % 65536, low % 65536>>

        \* Rotation and shift to the right by n bits, 0 < n < 32.
        rotr(x, n) ==
            LET y == IF n >= 16 THEN <<x[2], x[1]>> ELSE x
                p == 2 ^ (n % 16)
                q == 2 ^ (16 - (n % 16))
            IN  <<(y[1] \div p) + (y[2] % p) * q, (y[2] \div p) + (y[1] % p) * q>>

        shr(x, n) ==
            LET p == 2 ^ n
                q == 2 ^ (16 - n)
            IN  <<x[1] \div p, (x[2] \div p) + (x[1] % p) * q>>

        ch(x, y, z) == word_xor(word_and(x, y), word_and(word_not(x), z))
        maj(x, y, z) == word_xor(word_xor(word_and(x, y), word_and(x, z)), word_and(y, z))
        big_sigma0(x) == word_xor(word_xor(rotr(x, 2), rotr(x, 13)), rotr(x, 22))
        big_sigma1(x) == word_xor(word_xor(rotr(x, 6), rotr(x, 11)), rotr(x, 25))
        small_sigma0(x) == word_xor(word_xor(rotr(x, 7), rotr(x, 18)), shr(x, 3))
        small_sigma1(x) == word_xor(word_xor(rotr(x, 17), rotr(x, 19)), shr(x, 10))

        \* The message, 0x80, zero bytes up to 56 modulo 64, the length in
        \* bits as eight bytes, most significant first.
        zero_bytes(n) == [i \in 1..n |-> 0]

        sha256_pad(m) ==
            LET bits == 8 * Len(m)
            IN  m \o <<128>> \o zero_bytes((119 - (Len(m) % 64)) % 64)
                    \o <<0, 0, 0, 0, (bits \div 16777216) % 256, (bits \div 65536) % 256,
                         (bits \div 256) % 256, bits % 256>>

        \* The sixteen words of the 64-byte block that starts at byte i,
        \* then the 48 words derived from them.  The steps from..to are
        \* taken as those of the first half, then those of the second; the
        \* test on Len is always true and has the first half computed
        \* before the second.
        RECURSIVE block_words(_, _, _)
        block_words(padded, i, t) ==
            IF t > 16 THEN <<>>
            ELSE <<(<<256 * padded[i] + padded[i + 1], 256 * padded[i + 2] + padded[i + 3]>>)>>
                    \o block_words(padded, i + 4, t + 1)

        RECURSIVE schedule(_, _, _)
        schedule(w, from, to) ==
            IF from = to
            THEN Append(w, word_add(word_add(small_sigma1(w[from - 2]), w[from - 7]),
                                    word_add(small_sigma0(w[from - 15]), w[from - 16])))
            ELSE LET mid == (from + to) \div 2
                     half == schedule(w, from, mid)
                 IN  IF Len(half) = mid THEN schedule(half, mid + 1, to) ELSE half

        sha256_round(s, k, w) ==
            LET t1 == word_add(word_add(word_add(s[8], big_sigma1(s[5])),
                                        word_add(ch(s[5], s[6], s[7]), k)), w)
                t2 == word_add(big_sigma0(s[1]), maj(s[1], s[2], s[3]))
            IN  <<word_add(t1, t2), s[1], s[2], s[3], word_add(s[4], t1), s[5], s[6], s[7]>>

        RECURSIVE sha256_rounds(_, _, _, _)
        sha256_rounds(s, w, from, to) ==
            IF from = to
            THEN sha256_round(s, sha256_k[from], w[from])
            ELSE LET mid == (from + to) \div 2
                     half == sha256_rounds(s, w, from, mid)
                 IN  IF Len(half) = 8 THEN sha256_rounds(half, w, mid + 1, to) ELSE half

        sha256_block(h, padded, i) ==
            LET w == schedule(block_words(padded, i, 1), 17, 64)
                s == IF Len(w) = 64 THEN sha256_rounds(h, w, 1, 64) ELSE h
            IN  <<word_add(h[1], s[1]), word_add(h[2], s[2]), word_add(h[3], s[3]),
                  word_add(h[4], s[4]), word_add(h[5], s[5]), word_add(h[6], s[6]),
                  word_add(h[7], s[7]), word_add(h[8], s[8])>>

        RECURSIVE sha256_blocks(_, _, _)
        sha256_blocks(h, padded, i) ==
            IF i > Len(padded) THEN h
            ELSE LET next == sha256_block(h, padded, i)
                 IN  IF Len(next) = 8 THEN sha256_blocks(next, padded, i + 64) ELSE next

        RECURSIVE word_bytes(_, _)
        word_bytes(h, i) ==
            IF i > Len(h) THEN <<>>
            ELSE <<h[i][1] \div 256, h[i][1] % 256, h[i][2] \div 256, h[i][2] % 256>>
                    \o word_bytes(h, i + 1)
    IN  word_bytes(sha256_blocks(sha256_h0, sha256_pad(message), 1), 1)

\* A plausible slip: the script hash without the leading OP_0.
redeem_script_to_p2wsh_script_no_version(redeem_script) ==
    _push_data(sha256(redeem_script))

\* redeem_script_to_p2wsh_script, lines 44-62.
redeem_script_to_p2wsh_script(redeem_script) ==
    <<0>> \o _push_data(sha256(redeem_script))

\* The key of the repository's tests.
TestPubkeyHex ==
    <<"0", "2", "a", "1", "b", "2", "c", "3", "d", "4", "e", "5", "f", "6", "a", "7",
      "b", "8", "c", "9", "d", "0", "e", "1", "f", "2", "a", "3", "b", "4", "c", "5",
      "d", "6", "e", "7", "f", "8", "a", "9", "b", "0", "c", "1", "d", "2", "e", "3",
      "f", "4", "a", "5", "b", "6", "c", "7", "d", "8", "e", "9", "f", "0", "a", "1",
      "b", "2">>

\* Redeem scripts: none, one to three bytes, lengths about the 64-byte
\* block of the hash (55 bytes is the most one block holds), and the
\* freeze scripts of the 33-byte keys.
FillScripts ==
    {[i \in 1..len |-> fill] :
        len \in {0, 1, 2, 3, 54, 55, 56, 63, 64, 65, 119, 120}, fill \in {0, 97, 255}}

FreezeScripts ==
    {mk_freeze_script(tohex(k, 1), t).bytes :
        k \in {b \in PubkeyBytes : Len(b) = 33}, t \in {0, 177, 1956528000, 0 - 1}}

RedeemScripts ==
    FillScripts \cup FreezeScripts
        \cup {<<97, 98, 99>>, mk_freeze_script(TestPubkeyHex, 1956528000).bytes}

\* redeem_script_to_p2wsh_script(redeem_script) is called.
RedeemScriptToP2wshScript ==
    /\ sarg.fn = "redeem_script_to_p2wsh_script"
    /\ ~sout.done
    /\ sout' = [NoOutput EXCEPT !.done = TRUE,
                    !.bytes = redeem_script_to_p2wsh_script(sarg.redeem_script)]
    /\ UNCHANGED <<sarg, validatorVars, peerVars, aggVars>>

InitP2wsh ==
    /\ InitScript
    /\ sarg \in [fn : {"redeem_script_to_p2wsh_script"}, redeem_script : RedeemScripts]

NextP2wsh == RedeemScriptToP2wshScript

SpecP2wsh == InitP2wsh /\ [][NextP2wsh]_vars

(***************************************************************************)
(* Claims.                                                                  *)
(***************************************************************************)
HasOffer(ob, o, n) ==
    \E j \in 1..Len(ob.offers) :
        ob.offers[j] = [o EXCEPT !.directory_node = n]

HasBond(ob, b, n) ==
    \E j \in 1..Len(ob.fidelity_bonds) :
        /\ cache_key(ob.fidelity_bonds[j]) = cache_key(b)
        /\ ob.fidelity_bonds[j].counterparty = b.counterparty
        /\ ob.fidelity_bonds[j].directory_node = n

FromNode(ob, n) ==
    \/ \E j \in 1..Len(ob.offers) : ob.offers[j].directory_node = n
    \/ \E j \in 1..Len(ob.fidelity_bonds) : ob.fidelity_bonds[j].directory_node = n

\* C1: an update_orderbook call is never stuck, and the snapshot it returns
\* holds every offer and every bond of each node whose fetch succeeded and
\* nothing of a node whose fetch failed (connect error, fetch error, timeout,
\* or an exception out of the fetch).
C1_UpdateIsolatesFailedNodes ==
    \A u \in Updaters :
        /\ pc[u] # "idle" => ENABLED (update_orderbook(u) \/ calculate_bond_values(u))
        /\ ret[u] # NoBook =>
             \A i \in 1..Len(results[u]) :
                LET n == results[u][i].node_id
                    feed == node_feed[n]
                IN  IF results[u][i].ok
                    THEN /\ \A k \in 1..Len(feed.offers) : HasOffer(ret[u], feed.offers[k], n)
                         /\ \A k \in 1..Len(feed.bonds) : HasBond(ret[u], feed.bonds[k], n)
                    ELSE ~FromNode(ret[u], n)

\* A call returned with one node failed and the other node's data in the
\* snapshot.
C1_Witness ==
    \E u \in Updaters : \E i, j \in 1..Len(results[u]) :
        /\ ret[u] # NoBook
        /\ ~results[u][i].ok
        /\ node_feed[results[u][i].node_id].bonds # <<>>
        /\ results[u][j].ok
        /\ node_feed[results[u][j].node_id].offers # <<>>
        /\ node_feed[results[u][j].node_id].bonds = <<>>
        /\ FromNode(ret[u], results[u][j].node_id)

AtMostOnePerKey(bonds) ==
    \A i, j \in 1..Len(bonds) : i # j => cache_key(bonds[i]) # cache_key(bonds[j])

\* C3: the order book update_orderbook installs as the current snapshot
\* holds at most one bond per (txid, vout).
C3_InstalledBookHasOneBondPerKey ==
    AtMostOnePerKey(current_orderbook.fidelity_bonds)

\* C5: what get_orderbook returns is the initial empty order book or a
\* snapshot whose merge and valuation were complete when it was installed:
\* no bond task of it was unfinished then, none is unfinished now, and the
\* snapshot is the book as its valuation left it.
C5_ReaderSeesCompleteSnapshot ==
    \A r \in Readers :
        rret[r] # NoBook =>
            \/ rret[r] = OrderBook(StartTime)
            \/ /\ rret[r].pending = 0
               /\ \A u \in Updaters :
                     book[u].timestamp = rret[r].timestamp =>
                        /\ \A i \in 1..Len(tasks[u]) : tasks[u][i].st = "done"
                        /\ rret[r] = [book[u] EXCEPT !.pending = 0]

\* A reader has returned the installed snapshot of one update while another
\* update is valuing its own book.
C5_Witness ==
    \E r \in Readers : \E u \in Updaters :
        /\ rret[r] # NoBook
        /\ rret[r] = current_orderbook
        /\ rret[r].timestamp > StartTime
        /\ rret[r].fidelity_bonds # <<>>
        /\ pc[u] = "valuing"
        /\ \E i \in 1..Len(tasks[u]) : tasks[u][i].st = "inflight"

BadAnswer(t) ==
    /\ t.tx.asked
    /\ \/ t.tx.raised
       \/ ~t.tx.confirmed
       \/ t.pre.utxo_vout >= Len(t.tx.vout)

\* C8: a bond whose lookup raised, whose transaction is unconfirmed or whose
\* output index is out of range is left as the task found it, without a
\* value; once the batch is over every task of it has ended, and every other
\* bond whose lookup answered with a confirmed transaction that has the
\* output is valued with the output's amount.
C8_BadBondLeftAloneBatchGoesOn ==
    \A c \in Callers : \A i \in 1..Len(tasks[c]) :
        LET t == tasks[c][i]
            b == book[c].fidelity_bonds[i]
        IN  /\ (t.st = "done" /\ BadAnswer(t)) =>
                 /\ b = t.pre
                 /\ b.bond_value = None
                 /\ b.utxo_confirmation_timestamp = None
                 /\ b.amount = ClaimedAmount
            /\ (t.st = "done" /\ t.tx.asked /\ ~BadAnswer(t)) =>
                 /\ b.bond_value # None
                 /\ b.amount = t.tx.vout[b.utxo_vout + 1]
            /\ pc[c] \in {"locked", "idle"} => t.st = "done"
            /\ pc[c] = "valuing" => ENABLED (update_orderbook(c) \/ calculate_bond_values(c))

\* A batch is over in which one bond's lookup raised, one bond's transaction
\* was unconfirmed or lacked the output, and another bond was valued.
C8_Witness ==
    \E c \in Callers : \E i, j \in 1..Len(tasks[c]) :
        /\ pc[c] = "locked"
        /\ tasks[c][i].st = "done" /\ BadAnswer(tasks[c][i])
        /\ tasks[c][j].st = "done" /\ tasks[c][j].tx.asked /\ ~BadAnswer(tasks[c][j])
        /\ book[c].fidelity_bonds[j].bond_value > 0

\* The index in self.clients of the first client whose cache has a bond of
\* key k (0: no client has one).
FirstClientWith(k) ==
    LET has == {i \in 1..Len(clients) :
                  \E j \in 1..Len(client[clients[i].obj].bonds) :
                      cache_key(client[clients[i].obj].bonds[j]) = k}
    IN  IF has = {} THEN 0 ELSE CHOOSE i \in has : \A h \in has : i <= h

\* C2: the order book get_live_orderbook builds has exactly one bond for
\* every (txid, vout) that some registered client has cached and no other
\* bond; the bond kept is the one of the first client, in the order of
\* self.clients, that has the key.
C2_LiveBookKeepsFirstBondPerKey ==
    \A g \in LiveCallers :
        book[g] # NoBook =>
            LET bs == book[g].fidelity_bonds
            IN  /\ AtMostOnePerKey(bs)
                /\ \A i \in 1..Len(clients) :
                   \A j \in 1..Len(client[clients[i].obj].bonds) :
                      \E h \in 1..Len(bs) :
                          cache_key(bs[h]) = cache_key(client[clients[i].obj].bonds[j])
                /\ \A h \in 1..Len(bs) :
                      LET f == FirstClientWith(cache_key(bs[h]))
                      IN  /\ f # 0
                          /\ bs[h].directory_node = clients[f].node_id
                          /\ \E j \in 1..Len(client[clients[f].obj].bonds) :
                                /\ cache_key(client[clients[f].obj].bonds[j]) = cache_key(bs[h])
                                /\ client[clients[f].obj].bonds[j].counterparty =
                                       bs[h].counterparty

\* Two clients have cached the same (txid, vout) and one of them another
\* bond as well; the book holds the first client's bond and the other bond.
C2_Witness ==
    \E g \in LiveCallers :
        /\ book[g] # NoBook
        /\ Len(book[g].fidelity_bonds) = 2
        /\ Len(clients) = 2
        /\ \E j \in 1..Len(client[clients[1].obj].bonds) :
           \E k \in 1..Len(client[clients[2].obj].bonds) :
                cache_key(client[clients[1].obj].bonds[j]) =
                    cache_key(client[clients[2].obj].bonds[k])
        /\ Len(client[clients[1].obj].bonds) + Len(client[clients[2].obj].bonds) = 3

\* C9: in get_live_orderbook(calculate_bonds=True) a bond whose key is in
\* the value cache has the cached value, amount and confirmation timestamp
\* and no lookup is made for it; a lookup is made only for a bond without a
\* value after the cache pass; a bond that has a value is not changed by the
\* valuation.
C9_CachedBondsAreNotLookedUp ==
    \A g \in LiveCallers :
        (calc[g] /\ book[g] # NoBook) =>
            \A i \in 1..Len(tasks[g]) :
                LET t == tasks[g][i]
                    b == book[g].fidelity_bonds[i]
                    k == cache_key(b)
                IN  /\ (pc[g] = "valuing" /\ k \in DOMAIN bond_cache) =>
                         /\ t.st = "done"
                         /\ ~t.tx.asked
                         /\ b.bond_value = bond_cache[k].bond_value
                         /\ b.amount = bond_cache[k].amount
                         /\ b.utxo_confirmation_timestamp =
                                bond_cache[k].utxo_confirmation_timestamp
                    /\ t.st # "done" => t.pre.bond_value = None
                    /\ t.tx.asked => t.pre.bond_value = None
                    /\ t.pre.bond_value # None => b = t.pre

\* A call is valuing a book of which one bond took its value from the cache,
\* without a lookup, and another bond is being looked up.
C9_Witness ==
    \E g \in LiveCallers : \E i, j \in 1..Len(tasks[g]) :
        /\ calc[g]
        /\ pc[g] = "valuing"
        /\ cache_key(book[g].fidelity_bonds[i]) \in DOMAIN bond_cache
        /\ ~tasks[g][i].tx.asked
        /\ book[g].fidelity_bonds[i].bond_value > 0
        /\ book[g].fidelity_bonds[i].amount # ClaimedAmount
        /\ tasks[g][j].st = "inflight"

\* C10: after get_live_orderbook(calculate_bonds=True) an offer with bond
\* data that names the UTXO of a valued bond of its counterparty has that
\* bond's value.
C10_OfferHasItsBondsValue ==
    \A g \in LiveCallers :
        (calc[g] /\ ret[g] # NoBook) =>
            \A i \in 1..Len(ret[g].offers) : \A j \in 1..Len(ret[g].fidelity_bonds) :
                LET o == ret[g].offers[i]
                    b == ret[g].fidelity_bonds[j]
                IN  (/\ o.fidelity_bond_data # <<>>
                     /\ o.fidelity_bond_data = cache_key(b)
                     /\ o.counterparty = b.counterparty
                     /\ b.bond_value # None)
                    => o.fidelity_bond_value = b.bond_value

InFlight ==
    Cardinality(UNION {{<<c, i>> : i \in {k \in 1..Len(tasks[c]) :
                                              tasks[c][k].st = "inflight"}} :
                       c \in Callers})

StopOver ==
    /\ stop.pc = "idle"
    /\ stop.calls > 0
    /\ start.pc = "idle"
    /\ start.calls = stop.calls

\* C6: when stop_listening has returned after a start, every listener task
\* and every background valuation task has ended, every client that was
\* registered when it was called has been told to stop and its transport is
\* closed, and both registries are empty; the exception of a listener task
\* that had failed never ends the stop_listening call.
C6_StopLeavesNothingRunning ==
    /\ (StopOver /\ stop.result = "returned") =>
          /\ \A b \in 1..Len(btask) : btask[b].st # "running"
          /\ \A t \in 1..Len(ltask) : ltask[t].st # "running"
          /\ \A i \in 1..Len(stop.registry) :
                /\ ~client[stop.registry[i].obj].running
                /\ client[stop.registry[i].obj].connection = "closed"
          /\ clients = <<>>
          /\ listener_tasks = <<>>
    /\ stop.result # "listener_error"

\* stop_listening has returned after a start that registered two clients;
\* one listener task had failed with an exception, the other was cancelled.
C6_Witness ==
    /\ StopOver
    /\ stop.result = "returned"
    /\ Len(stop.registry) = 2
    /\ \E t \in 1..Len(ltask) : ltask[t].st = "failed"
    /\ \E t \in 1..Len(ltask) : ltask[t].st = "cancelled"

\* C7: a stop_listening call that is over has attempted close() on every
\* client that was registered when it was called, whatever the closes
\* before it did, and has returned: a failing close is not raised to its
\* caller.
C7_EveryClientCloseAttemptedNoneRaised ==
    StopOver =>
        /\ stop.result = "returned"
        /\ \A i \in 1..Len(stop.registry) :
              client[stop.registry[i].obj].close_attempted

\* What the answers a validate_bond call got say, whatever the call made
\* of them: the confirmation count was obtained and is at least 1.
ConfirmedOnChain(t) ==
    /\ t.tx1.asked /\ ~t.tx1.raised /\ t.tx1.confirmed /\ t.tx1.block_height # None
    /\ t.tip.height # None
    /\ t.tip.height - t.tx1.block_height + 1 >= 1

\* The on-chain value was obtained and equals the claimed amount.
ValueMatches(t, bond) ==
    /\ t.tx2.asked /\ ~t.tx2.raised
    /\ bond.utxo_vout < Len(t.tx2.vout)
    /\ t.tx2.vout[bond.utxo_vout + 1] = bond.amount

\* C11: validate_bond returns true exactly when the confirmation count was
\* obtained and is at least 1 and the on-chain value was obtained and equals
\* the claimed amount; otherwise, an error of the blockchain collaborator
\* included, it returns false; no exception leaves it; the value lookup is
\* made only when the confirmation check has passed.
C11_ValidateBondTrueIffConfirmedAndMatching ==
    \A i \in 1..Len(vtask) :
        LET t == vtask[i]
        IN  /\ ~t.raised
            /\ t.pc = "done" =>
                  (t.result <=> (ConfirmedOnChain(t) /\ ValueMatches(t, vbonds[i])))
            /\ t.pc # "done" => ~t.result
            /\ t.tx2.asked => ConfirmedOnChain(t)
            /\ t.pc = "value" => ConfirmedOnChain(t)

\* One bond of a batch passed; the confirmation lookup of another raised
\* an error and no value lookup was made for it.
C11_Witness ==
    \E i, j \in 1..Len(vtask) :
        /\ vtask[i].pc = "done" /\ vtask[i].result
        /\ vtask[j].pc = "done" /\ ~vtask[j].result
        /\ vtask[j].tip.raised
        /\ ~vtask[j].tx2.asked

\* The indices of the bonds whose validate_bond call returned true.
Passed == {i \in 1..Len(vtask) : vtask[i].result}

TasksOf(obj) == {t \in 1..Len(ltask) : ltask[t].obj = obj}

\* The client obj is in self.clients, under its node.
Registered(obj) ==
    \E i \in 1..Len(clients) :
        clients[i] = [node_id |-> client[obj].node_id, obj |-> obj]

\* C13: in start_continuous_listening a node whose connect, peer-list
\* handshake or send failed is not registered and has no listener task;
\* the loop still goes to every other node, and a node whose three steps
\* succeeded is registered and has its one listener task (as long as no
\* stop_listening call has been made since); the call returns,
\* it does not raise; a listener task exists only for a client to which the
\* request of type 687 has been sent.
C13_FailedNodeSkippedOthersStarted ==
    /\ \A o \in 1..Len(client) :
          /\ client[o].failed # "none" =>
                /\ ~Registered(o)
                /\ TasksOf(o) = {}
          /\ (/\ client[o].sent = PubMsg
              /\ o > (start.calls - 1) * Len(NodeOrder)
              /\ stop.calls < start.calls /\ stop.pc = "idle") =>
                /\ Registered(o)
                /\ Cardinality(TasksOf(o)) = 1
    /\ \A t \in 1..Len(ltask) : client[ltask[t].obj].sent = 687
    /\ start.pc # "idle" => ENABLED start_continuous_listening
    /\ start.pc = "idle" =>
          /\ Len(client) = start.calls * Len(NodeOrder)
          /\ \A o \in 1..Len(client) :
                client[o].node_id = NodeOrder[((o - 1) % Len(NodeOrder)) + 1]

\* The call has returned; the first node failed at the peer-list handshake,
\* the second node is registered and its listener task runs.
C13_Witness ==
    /\ start.pc = "idle"
    /\ start.calls = 1
    /\ Len(client) = 2
    /\ client[1].failed = "peerlist"
    /\ Registered(2)
    /\ \E t \in TasksOf(2) : ltask[t].st = "running"

\* The place in the stream of the first peer-list response (0: none).
FirstPeerlist ==
    LET at == {i \in 1..Len(stream) : stream[i].type = "PEERLIST"}
    IN  IF at = {} THEN 0 ELSE CHOOSE i \in at : \A j \in at : i <= j

\* C14: get_peerlist reads the messages in the order of their arrival and
\* discards every message that is not a peer-list response; what it returns
\* is the mapping of the first peer-list response, whose keys are exactly
\* the nicknames the node put in that line, each with its location; no
\* other message is parsed, however many come first.
C14_PeerlistIsTheFirstPeerlistResponse ==
    /\ \A k \in 1..Len(peer.discarded) :
          /\ peer.discarded[k] = k
          /\ stream[k].type # "PEERLIST"
    /\ (peer.pc = "idle" /\ peer.read > 0 /\ peer.raised = "none") =>
          LET e == stream[FirstPeerlist].entries
          IN  /\ FirstPeerlist = peer.read
              /\ Len(peer.discarded) = peer.read - 1
              /\ DOMAIN peer.peers = {e[i][1] : i \in 1..Len(e)}
              /\ \A i \in 1..Len(e) : peer.peers[e[i][1]] = e[i][2]
    /\ peer.raised = "timeout" => FirstPeerlist = 0

\* Two unrelated messages came first, one of them reading like a peer
\* list; the mapping returned has the two nicknames of the response.
C14_Witness ==
    /\ peer.pc = "idle"
    /\ peer.raised = "none"
    /\ peer.read = 3
    /\ stream[1].type = "PRIVMSG"
    /\ stream[2].type = "PUBMSG"
    /\ DOMAIN peer.peers = {<<"n", "1">>, <<"n", "2">>}

\* The instructions of a script by the standard rules: a byte of 0..75
\* pushes that many bytes of data, 76, 77 and 78 push the number of bytes
\* given by the next one, two or four bytes, any other byte is an opcode
\* on its own.  A push that runs past the end is not an instruction.
RECURSIVE instructions(_, _)
instructions(script, i) ==
    IF i > Len(script) THEN <<>>
    ELSE LET b == script[i]
             width == IF b <= 75 THEN 0
                      ELSE IF b = 76 THEN 1 ELSE IF b = 77 THEN 2 ELSE 4
             len == IF b <= 75 THEN b
                    ELSE IF i + width > Len(script) THEN Len(script)
                    ELSE IF b = 76 THEN script[i + 1]
                    ELSE IF b = 77 THEN script[i + 1] + 256 * script[i + 2]
                    ELSE script[i + 1] + 256 * script[i + 2] + 65536 * script[i + 3]
             first == i + width + 1
         IN  IF b > 78
             THEN <<[push |-> FALSE, op |-> b, data |-> <<>>]>>
                      \o instructions(script, i + 1)
             ELSE IF first + len - 1 > Len(script)
                  THEN <<[push |-> TRUE, op |-> None, data |-> <<>>]>>
                  ELSE <<[push |-> TRUE, op |-> b,
                          data |-> SubSeq(script, first, first + len - 1)]>>
                           \o instructions(script, first + len)

\* How often the byte occurs in the script, data included.
ByteCount(script, byte) == Cardinality({i \in 1..Len(script) : script[i] = byte})

\* How often the opcode occurs among the instructions of the script.
OpcodeCount(script, opcode) ==
    LET ins == instructions(script, 1)
    IN  Cardinality({k \in 1..Len(ins) : ~ins[k].push /\ ins[k].op = opcode})

FreezeScriptBuilt ==
    sarg.fn = "mk_freeze_script" /\ sout.done /\ ~sout.raised

\* C15, as the sentence reads for the bytes of the script: each of the
\* bytes 0xB1, 0x75 and 0xAC occurs exactly once in the redeem script.
C15_EachOpcodeByteOccursOnce ==
    FreezeScriptBuilt =>
        \A byte \in {177, 117, 172} : ByteCount(sout.bytes, byte) = 1

\* C15: for every 33-byte public key and every locktime, the redeem script
\* built by mk_freeze_script has check-locktime-verify (0xB1), drop (0x75)
\* and checksig (0xAC) exactly once each among its instructions, after the
\* locktime push, after it, and after the key push; the same byte values
\* inside the pushed locktime or key are data and are not counted.
C15_EachOpcodeIsOneInstruction ==
    FreezeScriptBuilt =>
        LET ins == instructions(sout.bytes, 1)
        IN  /\ \A opcode \in {177, 117, 172} : OpcodeCount(sout.bytes, opcode) = 1
            /\ Len(ins) = 5
            /\ ins[1].push /\ ins[4].push
            /\ <<ins[2].op, ins[3].op, ins[5].op>> = <<177, 117, 172>>
            /\ Len(ins[4].data) = 33

\* A script is built for a key whose bytes after the first are all 0xB1
\* and a locktime whose encoding is the two bytes 0xAC 0x00.
C15_Witness ==
    /\ FreezeScriptBuilt
    /\ sarg.locktime = 172
    /\ ByteCount(sout.bytes, 177) = 33
    /\ ByteCount(sout.bytes, 172) = 2

\* The number of bytes the hex string decodes to (None: it does not decode).
DecodedLength(hex) ==
    IF Len(hex) % 2 = 0 /\ \A i \in 1..Len(hex) : \E v \in 1..16 : HexDigits[v] = hex[i]
    THEN Len(hex) \div 2
    ELSE None

\* C17: mk_freeze_script with a public key that decodes to any number of
\* bytes other than 33, fewer or more, raises the invalid-input error whose
\* message names the actual and the expected length, and returns no
\* script; with exactly 33 bytes it does not fail.
C17_WrongKeyLengthRaisesNamingBothLengths ==
    (sarg.fn = "mk_freeze_script" /\ sout.done
        /\ DecodedLength(sarg.pubkey_hex) # None) =>
        LET len == DecodedLength(sarg.pubkey_hex)
        IN  IF len = 33
            THEN ~sout.raised /\ sout.bytes # <<>>
            ELSE /\ sout.raised
                 /\ sout.bytes = <<>>
                 /\ sout.message = <<"Invalid pubkey length: ", len, ", expected ", 33>>

\* An uncompressed key of 65 bytes was refused, the message naming 65.
C17_Witness ==
    /\ sarg.fn = "mk_freeze_script"
    /\ DecodedLength(sarg.pubkey_hex) = 65
    /\ sout.done /\ sout.raised
    /\ sout.message[2] = 65

\* The value of bytes read least significant first, from position i on.
RECURSIVE little_endian(_, _)
little_endian(bytes, i) ==
    IF i > Len(bytes) THEN 0
    ELSE bytes[i] + 256 * little_endian(bytes, i + 1)

\* The standard decoding of a script number: empty is zero; the top bit of
\* the last byte is the sign, the rest the magnitude, little-endian.
decode_scriptnum(bytes) ==
    IF bytes = <<>> THEN 0
    ELSE LET last == bytes[Len(bytes)]
             magnitude == little_endian([bytes EXCEPT ![Len(bytes)] = last % 128], 1)
         IN  IF last >= 128 THEN 0 - magnitude ELSE magnitude

\* 2^(8k-1) - 1, the largest magnitude a script number of k bytes holds.
RECURSIVE MaxMagnitude(_)
MaxMagnitude(k) == IF k = 0 THEN 0 ELSE IF k = 1 THEN 127 ELSE 256 * MaxMagnitude(k - 1) + 255

\* C18: _encode_scriptnum(n) is empty for n = 0; for every n, decoding
\* the result by the standard rules gives n, the top bit of the last byte
\* is set exactly when n < 0, and no shorter byte string decodes to n:
\* |n| exceeds what fewer bytes can hold, no string of at most one byte
\* that is shorter decodes to n, and a last byte of 0x00 or 0x80 is there
\* only after a byte whose top bit is set.
C18_ScriptnumIsMinimalSignMagnitude ==
    (sarg.fn = "_encode_scriptnum" /\ sout.done) =>
        LET n == sarg.n
            r == sout.bytes
            abs == IF n < 0 THEN 0 - n ELSE n
        IN  /\ ~sout.raised
            /\ (r = <<>>) <=> (n = 0)
            /\ \A i \in 1..Len(r) : r[i] \in 0..255
            /\ decode_scriptnum(r) = n
            /\ r # <<>> => ((r[Len(r)] >= 128) <=> (n < 0))
            /\ r # <<>> => abs > MaxMagnitude(Len(r) - 1)
            /\ \A s \in {<<>>} \cup {<<b>> : b \in 0..255} :
                    Len(s) < Len(r) => decode_scriptnum(s) # n
            /\ (r # <<>> /\ r[Len(r)] % 128 = 0) =>
                    (Len(r) > 1 /\ r[Len(r) - 1] >= 128)

\* -128 was encoded: the magnitude's only byte has its top bit set, so
\* the sign is in an extra byte.
C18_Witness ==
    /\ sarg.fn = "_encode_scriptnum"
    /\ sarg.n = 0 - 128
    /\ sout.done
    /\ sout.bytes = <<128, 128>>

\* Digests computed by hashlib.sha256 itself: of no bytes, of "abc", of
\* the freeze script of the tests' key and locktime, of 56 bytes "a".
KnownDigests ==
    {[message |-> <<>>,
      digest |->
      <<227, 176, 196, 66, 152, 252, 28, 20, 154, 251, 244, 200, 153, 111, 185, 36,
        39, 174, 65, 228, 100, 155, 147, 76, 164, 149, 153, 27, 120, 82, 184, 85>>],
     [message |-> <<97, 98, 99>>,
      digest |->
      <<186, 120, 22, 191, 143, 1, 207, 234, 65, 65, 64, 222, 93, 174, 34, 35,
        176, 3, 97, 163, 150, 23, 122, 156, 180, 16, 255, 97, 242, 0, 21, 173>>],
     [message |-> mk_freeze_script(TestPubkeyHex, 1956528000).bytes,
      digest |->
      <<81, 120, 94, 45, 188, 207, 148, 238, 212, 203, 196, 165, 231, 139, 60, 241,
        89, 1, 247, 138, 77, 118, 37, 212, 252, 188, 25, 252, 101, 107, 170, 63>>],
     [message |-> [i \in 1..56 |-> 97],
      digest |->
      <<179, 84, 57, 164, 172, 111, 9, 72, 182, 214, 249, 227, 198, 175, 15, 95,
        89, 12, 226, 15, 27, 222, 112, 144, 239, 121, 112, 104, 110, 198, 115, 138>>]}

P2wshBuilt == sarg.fn = "redeem_script_to_p2wsh_script" /\ sout.done

\* C16: for any redeem script, the empty one included,
\* redeem_script_to_p2wsh_script returns exactly 34 bytes: 0x00, 0x20,
\* then the 32 bytes of the SHA-256 digest of the redeem script (for the
\* scripts whose digest is known from hashlib, those very bytes); the
\* output is that function of the redeem script, so equal redeem scripts
\* give equal outputs.
C16_P2wshIsVersionPushAndDigest ==
    P2wshBuilt =>
        /\ ~sout.raised
        /\ Len(sout.bytes) = 34
        /\ sout.bytes[1] = 0
        /\ sout.bytes[2] = 32
        /\ SubSeq(sout.bytes, 3, 34) = sha256(sarg.redeem_script)
        /\ \A i \in 3..34 : sout.bytes[i] \in 0..255
        /\ \A k \in KnownDigests :
                k.message = sarg.redeem_script => SubSeq(sout.bytes, 3, 34) = k.digest

\* The output script of the empty redeem script ends with the last bytes
\* of the digest of no bytes, ... 78 52 b8 55.
C16_Witness ==
    /\ P2wshBuilt
    /\ sarg.redeem_script = <<>>
    /\ SubSeq(sout.bytes, 31, 34) = <<120, 82, 184, 85>>

\* The snapshot a get_live_orderbook call has returned is the order book
\* of that time stamp.
OnQueue(ob) == \E i \in 1..Len(bond_queue) : bond_queue[i].timestamp = ob.timestamp
WorkedOff(ob) == \E i \in 1..Len(processed) : processed[i].book.timestamp = ob.timestamp

\* C19: every merged snapshot that get_live_orderbook builds from the live
\* clients' caches is put on the valuation queue, where the background
\* valuation task takes it off, values its bonds and reattaches the values
\* to the offers: a snapshot that has been built and returned is on the
\* queue or has been worked off by the background task.
C19_EverySnapshotIsQueuedForValuation ==
    \A g \in LiveCallers :
        (pc[g] = "idle" /\ ret[g] # NoBook) => (OnQueue(ret[g]) \/ WorkedOff(ret[g]))

\* What the code does instead: nothing is ever on the queue, the
\* background task never gets a book, and with calculate_bonds the call
\* itself has looked up every bond before it returns.
C19_QueueStaysEmptyCallValuesItself ==
    /\ bond_queue = <<>>
    /\ processed = <<>>
    /\ \A g \in LiveCallers :
          (pc[g] = "idle" /\ calc[g] /\ ret[g] # NoBook) =>
              \A i \in 1..Len(tasks[g]) : tasks[g][i].st = "done"

\* C20: the value cache has a single writer, the background valuation
\* task: no step of get_live_orderbook, update_orderbook or get_orderbook
\* adds or replaces an entry of the cache.
C20_OnlyBackgroundTaskWritesCache ==
    [][bond_cache' = bond_cache \/ background_bond_calculator]_vars

\* What the code does instead: the cache holds exactly what
\* get_live_orderbook calls have stored, an entry for every valued bond of
\* the snapshot returned, and the background task stores nothing.
C20_CacheIsWrittenByLiveCalls ==
    /\ [][bond_cache' # bond_cache => \E g \in LiveCallers : LiveFinish(g)]_vars
    /\ [][background_bond_calculator => bond_cache' = bond_cache]_vars

\* The client object has a listener task that has not ended.
ListenerRunning(o) ==
    \E t \in 1..Len(ltask) : ltask[t].obj = o /\ ltask[t].st = "running"

\* C21: in stop_listening the background valuation task has ended before
\* the listeners are awaited, and every listener task has ended before the
\* first transport is released: no client whose close() has been called
\* has a listener task that is still running.
C21_TasksEndedBeforeTransportsReleased ==
    /\ (stop.pc \in {"await_listeners", "closing"} /\ stop.bond # 0) =>
            btask[stop.bond].st # "running"
    /\ stop.pc = "closing" =>
            \A i \in 1..Len(listener_tasks) : ltask[listener_tasks[i]].st # "running"
    /\ \A o \in 1..Len(client) : client[o].close_attempted => ~ListenerRunning(o)

\* The time stamps of the books worked off and of those on the queue.
StampsWorkedOff == [i \in 1..Len(processed) |-> processed[i].book.timestamp]
StampsQueued == [i \in 1..Len(bond_queue) |-> bond_queue[i].timestamp]

CancelRequested == \E b \in 1..Len(btask) : btask[b].cancel

\* C22: the background valuation task takes the queued order books one at
\* a time in the order in which they were queued (the books worked off,
\* then those on the queue, are the books put, in the order they were put);
\* it ends only by cancellation, an exception raised in a turn does not
\* end it; every book on the queue is worked off in the end unless
\* stop_listening has requested the cancellation, and a cancellation
\* requested does end the task.
C22_ConsumerDrainsInOrderEndsOnlyByCancel ==
    /\ [](LET all == StampsWorkedOff \o StampsQueued
          IN  \A i \in 1..Len(all) : all[i] = StartTime + i - 1)
    /\ [](\A b \in 1..Len(btask) :
            /\ btask[b].st \in {"running", "cancelled"}
            /\ btask[b].st = "cancelled" => (btask[b].cancel /\ stop.calls > 0))
    /\ \A k \in StartTime..(StartTime + MaxQueued) :
          (\E i \in 1..Len(bond_queue) : bond_queue[i].timestamp = k)
              ~> ((\E i \in 1..Len(processed) : processed[i].book.timestamp = k)
                     \/ CancelRequested)
    /\ CancelRequested ~> (\A b \in 1..Len(btask) : btask[b].st = "cancelled")

\* A turn raised an exception on the first book; the task is running and
\* has worked off the book queued after it.
C22_Witness ==
    /\ Len(processed) = 2
    /\ processed[1].outcome = "attach_error"
    /\ processed[2].outcome = "ok"
    /\ processed[2].book.fidelity_bonds # <<>>
    /\ processed[2].book.fidelity_bonds[1].bond_value # None
    /\ btask[bond_task].st = "running"

\* Nothing the aggregator created is running or open.
NothingLeftBehind ==
    /\ \A b \in 1..Len(btask) : btask[b].st # "running"
    /\ \A t \in 1..Len(ltask) : ltask[t].st # "running"
    /\ \A o \in 1..Len(client) : client[o].connection # "open"

\* A stop_listening call returns, with no start_continuous_listening call
\* under way.
StopCompletes ==
    /\ stop.pc # "idle"
    /\ stop'.pc = "idle"
    /\ stop'.result = "returned"
    /\ start'.pc = "idle"

\* C23: whatever the calls of start_continuous_listening and
\* stop_listening and however they overlap, at most one background
\* valuation task is running at any time, and when a stop_listening call
\* returns as the last of them, no background task and no listener task is
\* running and no client holds an open transport.
C23_CompletedStopLeavesNothingBehind ==
    /\ [](Cardinality({b \in 1..Len(btask) : btask[b].st = "running"}) <= 1)
    /\ [][StopCompletes => NothingLeftBehind']_vars

\* C24: when start_continuous_listening has returned, every client whose
\* transport is open is registered, so that stop_listening will close it:
\* a node whose connect succeeded and whose peer-list request or send
\* failed has left no open connection outside the registry.
C24_NoOpenConnectionOutsideRegistry ==
    start.pc = "idle" =>
        \A o \in 1..Len(client) : client[o].connection = "open" => Registered(o)

\* C25: with update_orderbook calls under way at the same time, the time
\* stamp of the current order book never decreases: a book stamped earlier
\* never replaces one stamped later.
C25_CurrentTimestampNeverDecreases ==
    [][current_orderbook'.timestamp >= current_orderbook.timestamp]_vars

\* Every entry of the value cache is under the key of its own bond and has
\* a value and a confirmation time.
CacheEntriesValued ==
    \A k \in DOMAIN bond_cache :
        /\ cache_key(bond_cache[k]) = k
        /\ bond_cache[k].bond_value # None
        /\ bond_cache[k].utxo_confirmation_timestamp # None

\* The step is the end of a get_live_orderbook(calculate_bonds=True) call.
LiveCalculateEnds ==
    \E g \in LiveCallers : pc[g] = "valuing" /\ calc[g] /\ pc'[g] = "idle"

\* The step is a get_live_orderbook(calculate_bonds=False) call.
LiveNoCalculate ==
    \E g \in LiveCallers : pc[g] = "idle" /\ ret'[g] # ret[g] /\ ~calc'[g]

\* C26: through get_live_orderbook and update_orderbook calls and turns of
\* the background task, every entry of the value cache is under the key of
\* its own (txid, vout) and has a bond value and a confirmation time; the
\* cache changes only at the end of a get_live_orderbook call made with
\* calculate_bonds, and what that adds are valued bonds of the call's
\* book; a call without calculate_bonds leaves the cache as it is and
\* starts no lookup; no entry is ever removed.
C26_ValueCacheInvariant ==
    /\ []CacheEntriesValued
    /\ [][bond_cache' # bond_cache =>
            /\ LiveCalculateEnds
            /\ \A k \in DOMAIN bond_cache' :
                  (k \notin DOMAIN bond_cache \/ bond_cache'[k] # bond_cache[k]) =>
                      \E g \in LiveCallers : \E i \in 1..Len(book[g].fidelity_bonds) :
                          /\ book[g].fidelity_bonds[i] = bond_cache'[k]
                          /\ book[g].fidelity_bonds[i].bond_value # None]_vars
    /\ [][LiveNoCalculate =>
            /\ bond_cache' = bond_cache
            /\ sem' = sem
            /\ \A g \in LiveCallers : ~calc'[g] => tasks'[g] = <<>>]_vars
    /\ [][DOMAIN bond_cache \subseteq DOMAIN bond_cache']_vars

\* The cache holds a valued bond, which a get_live_orderbook call with
\* calculate_bonds has stored; the call after it was made without
\* calculate_bonds and has returned a book with bonds.
C26_Witness ==
    /\ DOMAIN bond_cache # {}
    /\ ~calc["g1"]
    /\ pc["g1"] = "idle"
    /\ ret["g1"] # NoBook
    /\ ret["g1"].fidelity_bonds # <<>>

====
